---- MODULE Spec2Model ----
(***************************************************************************)
(* Double-entry accounting engine with FIFO inventory costing              *)
(* (models/accounting_engine.py, models/database.py, main.py checkout).    *)
(*                                                                         *)
(* Money is counted in hundredths of a currency unit, so the 0.01          *)
(* tolerance of the balance checks is the integer 1.                       *)
(* The state variables hold the COMMITTED content of the SQLite tables:    *)
(* every handler ends with a commit or a rollback, so between two handlers *)
(* nothing is pending.  A storage fault or a crash inside a handler is an  *)
(* input of the action (where it strikes); the action's result is what the *)
(* database holds afterwards.                                              *)
(***************************************************************************)
EXTENDS Integers, Sequences, FiniteSets, TLC

\* ---------------------------------------------------------------- bounds
MaxLots == 2
MaxEntries == 2
MaxSales == 1
MaxPurchases == 1
MaxQty == 2
MaxAmount == 2
MaxStock == 2
MaxReturns == 1
MaxCheckouts == 2
MaxCashRows == 2
MaxAccounts == 2

\* ------------------------------------------------------ program constants
\* abs(total_debits - total_credits) > 0.01 rejects: 0.01 unit = 1 hundredth
Tolerance == 1

VARIABLES
    accounts,   \* table accounts: rows [code, name, type, balance]
    journal,    \* tables journal_entries + journal_entry_lines
    products,   \* table products: id -> [state, quantity, cost_price, selling_price]
    lots,       \* table inventory_lots, index = lot id
    purchases,  \* table purchases, index = purchase id
    sales,      \* table sales + sale_items, index = sale id
    customers,  \* table customers: id -> [state, balance]
    cashbook,   \* table cash_transactions: rows [type, amount, sale_id]
    purchase_returns,   \* table purchase_returns
    sales_returns,      \* table sales_returns
    terminals,  \* each terminal's checkout in progress
    last        \* the last call: its name, inputs and what it returned

vars == <<accounts, journal, products, lots, purchases, sales, customers,
          cashbook, purchase_returns, sales_returns, terminals, last>>

\* Two product ids: a sale of two items, and lots of another product beside
\* the quoted one.
Products == {1, 2}
Quantities == 1..MaxQty
\* Sample unit costs and acquisition dates: two of each, so that lots can
\* differ in cost, tie on the date, and be dated out of insertion order.
Costs == {1, 2}
Dates == {1, 2}
PaymentTypes == {"cash", "credit"}
\* One registered customer; customer id 0 is NULL, the walk-in customer.
Customers == {1}
\* Two terminals running the program on the same database file.
Terminals == {1, 2}

Abs(x) == IF x < 0 THEN -x ELSE x
Min2(a, b) == IF a < b THEN a ELSE b
SetMin(S) == CHOOSE x \in S : \A y \in S : x <= y

\* ------------------------------------------------------ chart of accounts
\* The default chart inserted by Database.create_tables.
DefaultChart ==
    << [code |-> "1001", name |-> "Cash", type |-> "asset", balance |-> 0],
       [code |-> "1002", name |-> "Accounts Receivable", type |-> "asset", balance |-> 0],
       [code |-> "1003", name |-> "Inventory", type |-> "asset", balance |-> 0],
       [code |-> "1004", name |-> "Equipment", type |-> "asset", balance |-> 0],
       [code |-> "1005", name |-> "Accumulated Depreciation - Equipment", type |-> "asset", balance |-> 0],
       [code |-> "2001", name |-> "Accounts Payable", type |-> "liability", balance |-> 0],
       [code |-> "2002", name |-> "Unearned Revenue", type |-> "liability", balance |-> 0],
       [code |-> "3001", name |-> "Owner Capital", type |-> "equity", balance |-> 0],
       [code |-> "3002", name |-> "Owner Drawings", type |-> "equity", balance |-> 0],
       [code |-> "3003", name |-> "Retained Earnings", type |-> "equity", balance |-> 0],
       [code |-> "4001", name |-> "Sales Revenue", type |-> "revenue", balance |-> 0],
       [code |-> "4002", name |-> "Service Revenue", type |-> "revenue", balance |-> 0],
       [code |-> "4003", name |-> "Sales Returns", type |-> "revenue", balance |-> 0],
       [code |-> "5001", name |-> "Cost of Goods Sold", type |-> "expense", balance |-> 0],
       [code |-> "5002", name |-> "Operating Expenses", type |-> "expense", balance |-> 0],
       [code |-> "5003", name |-> "Depreciation Expense", type |-> "expense", balance |-> 0],
       [code |-> "6200", name |-> "Utilities Expense", type |-> "expense", balance |-> 0],
       [code |-> "6600", name |-> "Bad Debt Expense", type |-> "expense", balance |-> 0] >>

AccountNames(accts) == {accts[i].name : i \in DOMAIN accts}

\* get_account_balance: the balance of the first row of that name, 0 if none.
GetAccountBalance(accts, name) ==
    LET rows == {i \in DOMAIN accts : accts[i].name = name}
    IN  IF rows = {} THEN 0 ELSE accts[SetMin(rows)].balance

\* update_account_balance, the statements inside its try block: the type of
\* the (first) row of that name decides the sign; an unknown name returns
\* without any change.
\* (variant: every account treated as debit-normal)
BalanceChangeDebitNormal(type, debit, credit) == debit - credit

BalanceChange(type, debit, credit) ==
    IF type \in {"asset", "expense"} THEN debit - credit ELSE credit - debit

UpdateAccountBalance(accts, name, debit, credit) ==
    LET rows == {i \in DOMAIN accts : accts[i].name = name}
    IN  IF rows = {} THEN accts
        ELSE LET change == BalanceChange(accts[SetMin(rows)].type, debit, credit)
             IN  [i \in DOMAIN accts |->
                    IF accts[i].name = name
                    THEN [accts[i] EXCEPT !.balance = @ + change]
                    ELSE accts[i]]

\* --------------------------------------------------------- journal engine
Line(account, debit, credit) ==
    [account |-> account, debit |-> debit, credit |-> credit]

RECURSIVE SumDebit(_)
SumDebit(lines) ==
    IF lines = <<>> THEN 0 ELSE Head(lines).debit + SumDebit(Tail(lines))

RECURSIVE SumCredit(_)
SumCredit(lines) ==
    IF lines = <<>> THEN 0 ELSE Head(lines).credit + SumCredit(Tail(lines))

\* (variant: the difference compared without abs())
IsBalancedOneSided(lines) ==
    ~(SumDebit(lines) - SumCredit(lines) > Tolerance)

\* create_journal_entry's validation: raise unless the totals agree within 0.01
IsBalanced(lines) ==
    ~(Abs(SumDebit(lines) - SumCredit(lines)) > Tolerance)

\* A storage fault while posting: none, or an exception raised by the header
\* insert, by the insert of line `at`, by the balance update of line `at`, or
\* by the commit.
NoFault == [kind |-> "none", at |-> 0]
Faults(n) ==
    {NoFault, [kind |-> "header", at |-> 0], [kind |-> "commit", at |-> 0]}
    \cup {[kind |-> k, at |-> i] : k \in {"line", "balance"}, i \in 1..n}

\* The loop of create_journal_entry over the lines: each line's balance update
\* runs inside update_account_balance's own try/except, which prints and
\* returns when the update raises.
RECURSIVE ApplyLines(_, _, _, _)
ApplyLines(accts, lines, i, fault) ==
    IF i > Len(lines) THEN accts
    ELSE LET l == lines[i]
             next == IF fault.kind = "balance" /\ fault.at = i
                     THEN accts
                     ELSE UpdateAccountBalance(accts, l.account, l.debit, l.credit)
         IN  ApplyLines(next, lines, i + 1, fault)

Entry(jtype, lines) ==
    [journal_type |-> jtype,
     total_debit |-> SumDebit(lines),
     total_credit |-> SumCredit(lines),
     lines |-> lines]

\* (variant: a line naming an account that is not in the chart fails the
\* whole posting)
EngineCreateJournalEntryStrict(accts, jrnl, jtype, lines, fault) ==
    IF ~IsBalanced(lines)
    THEN [ret |-> "raised", accounts |-> accts, journal |-> jrnl]
    ELSE IF \/ fault.kind \in {"header", "line", "commit"}
            \/ \E i \in DOMAIN lines : lines[i].account \notin AccountNames(accts)
    THEN [ret |-> "none", accounts |-> accts, journal |-> jrnl]
    ELSE [ret |-> "id",
          accounts |-> ApplyLines(accts, lines, 1, fault),
          journal |-> Append(jrnl, Entry(jtype, lines))]

\* AccountingEngine.create_journal_entry on the tables (accts, jrnl).
\* ret: "raised" (ValueError, before any write), "none" (an exception inside
\* the try block: rollback, return None), "id" (committed).
EngineCreateJournalEntry(accts, jrnl, jtype, lines, fault) ==
    IF ~IsBalanced(lines)
    THEN [ret |-> "raised", accounts |-> accts, journal |-> jrnl]
    ELSE IF fault.kind \in {"header", "line", "commit"}
    THEN [ret |-> "none", accounts |-> accts, journal |-> jrnl]
    ELSE [ret |-> "id",
          accounts |-> ApplyLines(accts, lines, 1, fault),
          journal |-> Append(jrnl, Entry(jtype, lines))]

\* Database.create_journal_entry: exact equality of the totals, the header and
\* the lines are inserted, no account balance is touched.
DbCreateJournalEntry(accts, jrnl, jtype, lines, fault) ==
    IF SumDebit(lines) # SumCredit(lines)
    THEN [ret |-> "raised", accounts |-> accts, journal |-> jrnl]
    ELSE IF fault.kind \in {"header", "line", "commit"}
    THEN [ret |-> "none", accounts |-> accts, journal |-> jrnl]
    ELSE [ret |-> "id",
          accounts |-> accts,
          journal |-> Append(jrnl, Entry(jtype, lines))]

\* validate_trial_balance: all debit lines against all credit lines.
RECURSIVE JournalDebits(_)
JournalDebits(jrnl) ==
    IF jrnl = <<>> THEN 0 ELSE SumDebit(Head(jrnl).lines) + JournalDebits(Tail(jrnl))

RECURSIVE JournalCredits(_)
JournalCredits(jrnl) ==
    IF jrnl = <<>> THEN 0 ELSE SumCredit(Head(jrnl).lines) + JournalCredits(Tail(jrnl))

ValidateTrialBalance(jrnl) ==
    Abs(JournalDebits(jrnl) - JournalCredits(jrnl)) < Tolerance

\* ---------------------------------------------------- inventory lot ledger
NoProduct ==
    [state |-> "none", quantity |-> 0, cost_price |-> 0, selling_price |-> 0]

ProductExists(prods, p) == p \in DOMAIN prods /\ prods[p].state = "active"

Lot(p, purchase_id, q, cost, date) ==
    [product_id |-> p, purchase_id |-> purchase_id,
     quantity_purchased |-> q, quantity_remaining |-> q,
     cost_per_unit |-> cost, date_acquired |-> date]

\* UPDATE products SET quantity = quantity + ? WHERE id = ? (no row: no change)
AddQuantity(prods, p, delta) ==
    IF ProductExists(prods, p)
    THEN [prods EXCEPT ![p].quantity = @ + delta]
    ELSE prods

\* add_inventory_lot: a lot with quantity_remaining = quantity, and the
\* product's quantity raised by the same amount.
AddInventoryLot(lts, prods, p, purchase_id, q, cost, date) ==
    [lots |-> Append(lts, Lot(p, purchase_id, q, cost, date)),
     products |-> AddQuantity(prods, p, q),
     ret |-> Len(lts) + 1]

\* get_inventory_lots: the product's lots with quantity_remaining > 0,
\* ORDER BY date_acquired ASC.  SQL leaves the order of rows with equal keys
\* open, so the result is any of the date-sorted arrangements.
LotsWithStock(lts, p) ==
    {i \in DOMAIN lts : lts[i].product_id = p /\ lts[i].quantity_remaining > 0}

Arrangements(S) ==
    {s \in [1..Cardinality(S) -> S] : \A i, j \in DOMAIN s : i # j => s[i] # s[j]}

\* (variant: newest lot first)
DateSortedDescending(lts, s) ==
    \A i, j \in DOMAIN s :
        i < j => lts[s[i]].date_acquired >= lts[s[j]].date_acquired

DateSorted(lts, s) ==
    \A i, j \in DOMAIN s :
        i < j => lts[s[i]].date_acquired <= lts[s[j]].date_acquired

GetInventoryLots(lts, p) ==
    {s \in Arrangements(LotsWithStock(lts, p)) : DateSorted(lts, s)}

\* The rows a query returns now, in the order `ord` fixed for equal dates.
StillInStock(lts, ord) ==
    SelectSeq(ord, LAMBDA i : lts[i].quantity_remaining > 0)

\* (variant: each lot asked for all that is still needed, whatever it holds)
RECURSIVE FifoWalkWithoutMin(_, _, _, _, _, _)
FifoWalkWithoutMin(lts, ord, i, remaining_needed, total_cost, lots_consumed) ==
    IF i > Len(ord) \/ remaining_needed <= 0
    THEN [remaining_needed |-> remaining_needed,
          total_cost |-> total_cost,
          lots_consumed |-> lots_consumed]
    ELSE LET lot == lts[ord[i]]
             consume_qty == remaining_needed
             cost == consume_qty * lot.cost_per_unit
         IN  FifoWalkWithoutMin(lts, ord, i + 1, remaining_needed - consume_qty,
                                total_cost + cost,
                                Append(lots_consumed,
                                       [lot_id |-> ord[i],
                                        quantity_consumed |-> consume_qty,
                                        cost_per_unit |-> lot.cost_per_unit,
                                        total_cost |-> cost]))

\* get_fifo_cost's loop over the lots.
RECURSIVE FifoWalk(_, _, _, _, _, _)
FifoWalk(lts, ord, i, remaining_needed, total_cost, lots_consumed) ==
    IF i > Len(ord) \/ remaining_needed <= 0
    THEN [remaining_needed |-> remaining_needed,
          total_cost |-> total_cost,
          lots_consumed |-> lots_consumed]
    ELSE LET lot == lts[ord[i]]
             available == lot.quantity_remaining
             consume_qty == Min2(remaining_needed, available)
             cost == consume_qty * lot.cost_per_unit
         IN  FifoWalk(lts, ord, i + 1, remaining_needed - consume_qty,
                      total_cost + cost,
                      Append(lots_consumed,
                             [lot_id |-> ord[i],
                              quantity_consumed |-> consume_qty,
                              cost_per_unit |-> lot.cost_per_unit,
                              total_cost |-> cost]))

NoQuote == [none |-> TRUE, total_cost |-> 0, lots_consumed |-> <<>>]

\* (variant: the sentinel also when nothing is left to find)
GetFifoCostStrict(lts, ord, quantity_needed) ==
    LET w == FifoWalk(lts, ord, 1, quantity_needed, 0, <<>>)
    IN  IF w.remaining_needed >= 0
        THEN NoQuote
        ELSE [none |-> FALSE,
              total_cost |-> w.total_cost,
              lots_consumed |-> w.lots_consumed]

\* get_fifo_cost(product, quantity_needed) over the query result `ord`:
\* (None, None) when the lots run out first, else (total_cost, lots_consumed).
GetFifoCost(lts, ord, quantity_needed) ==
    LET w == FifoWalk(lts, ord, 1, quantity_needed, 0, <<>>)
    IN  IF w.remaining_needed > 0
        THEN NoQuote
        ELSE [none |-> FALSE,
              total_cost |-> w.total_cost,
              lots_consumed |-> w.lots_consumed]

\* (variant: the UPDATE without its quantity_remaining >= ? condition)
ConsumeInventoryLotUnchecked(lts, prods, lot_id, quantity_consumed) ==
    IF lot_id \notin DOMAIN lts
    THEN [ret |-> FALSE, lots |-> lts, products |-> prods]
    ELSE [ret |-> ProductExists(prods, lts[lot_id].product_id),
          lots |-> [lts EXCEPT ![lot_id].quantity_remaining = @ - quantity_consumed],
          products |-> AddQuantity(prods, lts[lot_id].product_id, -quantity_consumed)]

\* consume_inventory_lot: the lot row is updated only WHERE
\* quantity_remaining >= quantity_consumed; the product row only when the lot
\* row was; the return value is the row count of the LAST statement run.
ConsumeInventoryLot(lts, prods, lot_id, quantity_consumed) ==
    IF lot_id \notin DOMAIN lts
    THEN [ret |-> FALSE, lots |-> lts, products |-> prods]
    ELSE IF ~(lts[lot_id].quantity_remaining >= quantity_consumed)
    THEN [ret |-> FALSE, lots |-> lts, products |-> prods]
    ELSE [ret |-> ProductExists(prods, lts[lot_id].product_id),
          lots |-> [lts EXCEPT ![lot_id].quantity_remaining = @ - quantity_consumed],
          products |-> AddQuantity(prods, lts[lot_id].product_id, -quantity_consumed)]

\* sync_product_quantities_with_inventory_lots: every product's quantity
\* becomes the sum of quantity_remaining over its lots.
RECURSIVE LotSum(_, _, _)
LotSum(lts, p, i) ==
    IF i > Len(lts) THEN 0
    ELSE (IF lts[i].product_id = p THEN lts[i].quantity_remaining ELSE 0)
         + LotSum(lts, p, i + 1)

SyncProductQuantities(lts, prods) ==
    [p \in DOMAIN prods |->
        IF prods[p].state = "active"
        THEN [prods[p] EXCEPT !.quantity = LotSum(lts, p, 1)]
        ELSE prods[p]]

RECURSIVE TotalRemaining(_)
TotalRemaining(lts) ==
    IF lts = <<>> THEN 0
    ELSE Head(lts).quantity_remaining + TotalRemaining(Tail(lts))

\* ------------------------------------------------- transaction processors
\* (variant: the goods sold taken out of Inventory at their selling amount)
SaleLinesCogsAtPrice(payment_type, total_amount, total_cogs) ==
    << Line(IF payment_type = "cash" THEN "Cash" ELSE "Accounts Receivable",
            total_amount, 0),
       Line("Sales Revenue", 0, total_amount),
       Line("Cost of Goods Sold", total_amount, 0),
       Line("Inventory", 0, total_amount) >>

\* (variant: the sale amount always debited to Cash)
SaleLinesAlwaysCash(payment_type, total_amount, total_cogs) ==
    << Line("Cash", total_amount, 0),
       Line("Sales Revenue", 0, total_amount),
       Line("Cost of Goods Sold", total_cogs, 0),
       Line("Inventory", 0, total_cogs) >>

\* process_sales_transaction's four lines.
SaleLines(payment_type, total_amount, total_cogs) ==
    << Line(IF payment_type = "cash" THEN "Cash" ELSE "Accounts Receivable",
            total_amount, 0),
       Line("Sales Revenue", 0, total_amount),
       Line("Cost of Goods Sold", total_cogs, 0),
       Line("Inventory", 0, total_cogs) >>

\* (variant: beginning inventory credited to Cash)
PurchaseLinesPaidCash(total_amount, payment_type, is_beginning_inventory) ==
    << Line("Inventory", total_amount, 0),
       Line(IF payment_type = "credit" /\ ~is_beginning_inventory
            THEN "Accounts Payable" ELSE "Cash",
            0, total_amount) >>

\* process_inventory_purchase's two lines.
PurchaseLines(total_amount, payment_type, is_beginning_inventory) ==
    << Line("Inventory", total_amount, 0),
       Line(IF is_beginning_inventory THEN "Owner Capital"
            ELSE IF payment_type = "cash" THEN "Cash" ELSE "Accounts Payable",
            0, total_amount) >>

PurchaseJournalType(payment_type, is_beginning_inventory) ==
    IF is_beginning_inventory THEN "general"
    ELSE IF payment_type = "credit" THEN "ap" ELSE "cash_disbursement"

\* (variant: the credit line of an increase left empty)
AdjustmentLinesOneSided(adjustment_type, adjustment_value) ==
    IF adjustment_type = "decrease"
    THEN << Line("Operating Expenses", adjustment_value, 0),
            Line("Inventory", 0, adjustment_value) >>
    ELSE << Line("Inventory", adjustment_value, 0),
            Line("Other Income", 0, 0) >>

\* process_inventory_adjustment's two lines.
AdjustmentLines(adjustment_type, adjustment_value) ==
    IF adjustment_type = "decrease"
    THEN << Line("Operating Expenses", adjustment_value, 0),
            Line("Inventory", 0, adjustment_value) >>
    ELSE << Line("Inventory", adjustment_value, 0),
            Line("Other Income", 0, adjustment_value) >>

\* (variant: every purchase return reversed against Accounts Payable)
PurchaseReturnLinesOnCredit(payment_type, total_cost) ==
    << Line("Accounts Payable", total_cost, 0), Line("Inventory", 0, total_cost) >>

\* add_purchase_return's two lines, by the original purchase's payment type.
PurchaseReturnLines(payment_type, total_cost) ==
    IF payment_type = "cash"
    THEN << Line("Cash", total_cost, 0), Line("Inventory", 0, total_cost) >>
    ELSE << Line("Accounts Payable", total_cost, 0), Line("Inventory", 0, total_cost) >>

\* (variant: the refund and the contra-revenue booked at cost)
SalesReturnLinesAtCost(total_selling, total_cost) ==
    << Line("Sales Returns", total_cost, 0),
       Line("Inventory", total_cost, 0),
       Line("Cost of Goods Sold", 0, total_cost),
       Line("Cash", 0, total_cost) >>

\* add_sales_return's four lines.
SalesReturnLines(total_selling, total_cost) ==
    << Line("Sales Returns", total_selling, 0),
       Line("Inventory", total_cost, 0),
       Line("Cost of Goods Sold", 0, total_cost),
       Line("Cash", 0, total_selling) >>

\* sum(item['quantity'] * item['unit_price'] for item in items)
RECURSIVE ItemsTotal(_)
ItemsTotal(items) ==
    IF items = <<>> THEN 0
    ELSE Head(items).quantity * Head(items).unit_price + ItemsTotal(Tail(items))

\* create_sale's validation loop: every item's FIFO quote must not be None.
StockAvailable(lts, ords, items) ==
    \A i \in DOMAIN items :
        ~GetFifoCost(lts, StillInStock(lts, ords[items[i].product_id]),
                     items[i].quantity).none

\* process_sales_transaction, the inner loop over one quote's lots_consumed.
\* `budget` is the number of consume_inventory_lot calls that still complete
\* before the process stops (a crash, or an exception out of the call).
RECURSIVE ConsumePlan(_, _, _, _, _)
ConsumePlan(lts, prods, plan, j, budget) ==
    IF j > Len(plan)
    THEN [lots |-> lts, products |-> prods, budget |-> budget, stopped |-> FALSE]
    ELSE IF budget = 0
    THEN [lots |-> lts, products |-> prods, budget |-> 0, stopped |-> TRUE]
    ELSE LET c == ConsumeInventoryLot(lts, prods, plan[j].lot_id,
                                      plan[j].quantity_consumed)
         IN  ConsumePlan(c.lots, c.products, plan, j + 1, budget - 1)

\* process_sales_transaction, the loop over the sale items.
RECURSIVE SaleLoop(_, _, _, _, _, _, _, _)
SaleLoop(lts, prods, ords, items, i, total_cogs, budget, fallback) ==
    IF i > Len(items)
    THEN [lots |-> lts, products |-> prods, total_cogs |-> total_cogs,
          stopped |-> FALSE, fallback |-> fallback]
    ELSE LET item == items[i]
             p == item.product_id
         IN  IF ~ProductExists(prods, p)
             THEN SaleLoop(lts, prods, ords, items, i + 1, total_cogs, budget, fallback)
             ELSE LET quote == GetFifoCost(lts, StillInStock(lts, ords[p]),
                                           item.quantity)
                  IN  IF quote.none
                      THEN SaleLoop(lts, prods, ords, items, i + 1,
                                    total_cogs + prods[p].cost_price * item.quantity,
                                    budget, TRUE)
                      ELSE LET c == ConsumePlan(lts, prods, quote.lots_consumed,
                                                1, budget)
                           IN  IF c.stopped
                               THEN [lots |-> c.lots, products |-> c.products,
                                     total_cogs |-> total_cogs,
                                     stopped |-> TRUE, fallback |-> fallback]
                               ELSE SaleLoop(c.lots, c.products, ords, items, i + 1,
                                             total_cogs + quote.total_cost,
                                             c.budget, fallback)

\* ------------------------------------------------------------------ state
NoCustomer == [state |-> "none", balance |-> 0]

\* A row of cash_transactions: its type name, its amount, and the sale its
\* description names (0: none).
CashRow(type, amount, sale_id) ==
    [type |-> type, amount |-> amount, sale_id |-> sale_id]

\* A terminal with no checkout in progress.
Idle == [pc |-> "idle", sale_id |-> 0, items |-> <<>>, payment_type |-> ""]

Init ==
    /\ accounts = DefaultChart
    /\ journal = <<>>
    /\ products = [p \in Products |-> NoProduct]
    /\ lots = <<>>
    /\ purchases = <<>>
    /\ sales = <<>>
    /\ customers = [c \in Customers |-> NoCustomer]
    /\ cashbook = <<>>
    /\ purchase_returns = <<>>
    /\ sales_returns = <<>>
    /\ terminals = [t \in Terminals |-> Idle]
    /\ last = [op |-> "init", ret |-> "", arg |-> <<>>]

ledgerVars == <<accounts, journal>>
stockVars == <<products, lots>>
recordVars == <<purchases, sales>>
partyVars == <<customers, cashbook>>
returnVars == <<purchase_returns, sales_returns>>

Called(op, ret, arg) == [op |-> op, ret |-> ret, arg |-> arg]

\* ------------------------------------------------- journal engine actions
\* What `last` keeps of a posting call: the lines handed in, their debit total
\* minus their credit total, and the storage fault that struck.
Posting(lines, fault) ==
    [diff |-> SumDebit(lines) - SumCredit(lines), fault |-> fault,
     lines |-> lines]

\* AccountingEngine.create_journal_entry called with arbitrary lines
CreateJournalEntry(jtype, lines, fault) ==
    /\ Len(journal) < MaxEntries
    /\ LET r == EngineCreateJournalEntry(accounts, journal, jtype, lines, fault)
       IN  /\ accounts' = r.accounts
           /\ journal' = r.journal
           /\ last' = Called("create_journal_entry", r.ret, Posting(lines, fault))
    /\ UNCHANGED <<stockVars, recordVars>>
    /\ UNCHANGED <<partyVars, returnVars, terminals>>

\* Database.create_journal_entry called with arbitrary lines
DbJournalEntry(jtype, lines, fault) ==
    /\ Len(journal) < MaxEntries
    /\ LET r == DbCreateJournalEntry(accounts, journal, jtype, lines, fault)
       IN  /\ accounts' = r.accounts
           /\ journal' = r.journal
           /\ last' = Called("db_create_journal_entry", r.ret, Posting(lines, fault))
    /\ UNCHANGED <<stockVars, recordVars>>
    /\ UNCHANGED <<partyVars, returnVars, terminals>>

\* Two-line entries: Dr Cash d / Cr Sales Revenue c for all small d and c, the
\* reverse entry of one unit, a debit to a name that is in no chart, and
\* Dr Cash 100.00 / Cr Sales Revenue 100.00.
Amounts == 0..MaxAmount
GenericLines ==
    {<<Line("Cash", d, 0), Line("Sales Revenue", 0, c)>> :
        d \in Amounts, c \in Amounts}
    \cup {<<Line("Sales Revenue", 1, 0), Line("Cash", 0, 1)>>,
          <<Line("Suspense", 1, 0), Line("Sales Revenue", 0, 1)>>,
          <<Line("Cash", 10000, 0), Line("Sales Revenue", 0, 10000)>>}

NextJournal ==
    \/ \E lines \in GenericLines : CreateJournalEntry("general", lines, NoFault)
    \/ \E lines \in GenericLines : DbJournalEntry("general", lines, NoFault)

\* The journal alone, the storage never failing.
SpecJournal == Init /\ [][NextJournal]_vars

NextJournalFaulty ==
    \/ \E lines \in GenericLines, f \in Faults(2) :
          CreateJournalEntry("general", lines, f)
    \/ \E lines \in GenericLines, f \in Faults(2) :
          DbJournalEntry("general", lines, f)

\* The journal alone, any storage fault striking any call.
SpecJournalFaulty == Init /\ [][NextJournalFaulty]_vars

\* --------------------------------------------------- lot ledger actions
Prices == {3}
Needs == 1..(MaxQty + 1)

\* Database.add_product as the inventory screen calls it: quantity = 0, the
\* next id of the AUTOINCREMENT key.
AddProduct(cost, price) ==
    /\ \E p \in Products : products[p].state = "none"
    /\ LET p == SetMin({x \in Products : products[x].state = "none"})
       IN  /\ products' = [products EXCEPT ![p] =
                              [state |-> "active", quantity |-> 0,
                               cost_price |-> cost, selling_price |-> price]]
           /\ last' = Called("add_product", "id", [product_id |-> p])
    /\ UNCHANGED <<ledgerVars, lots, recordVars>>
    /\ UNCHANGED <<partyVars, returnVars, terminals>>

\* Database.delete_product: the row goes, its lots stay (no foreign key is
\* enforced), its id is never used again.
DeleteProduct(p) ==
    /\ ProductExists(products, p)
    /\ products' = [products EXCEPT ![p] = [NoProduct EXCEPT !.state = "deleted"]]
    /\ last' = Called("delete_product", "true", [product_id |-> p])
    /\ UNCHANGED <<ledgerVars, lots, recordVars>>
    /\ UNCHANGED <<partyVars, returnVars, terminals>>

\* Database.add_inventory_lot
AddLot(p, purchase_id, q, cost, date) ==
    /\ Len(lots) < MaxLots
    /\ ProductExists(products, p)
    /\ LET r == AddInventoryLot(lots, products, p, purchase_id, q, cost, date)
       IN  /\ lots' = r.lots
           /\ products' = r.products
           /\ last' = Called("add_inventory_lot", "id", [lot_id |-> r.ret])
    /\ UNCHANGED <<ledgerVars, recordVars>>
    /\ UNCHANGED <<partyVars, returnVars, terminals>>

\* Database.consume_inventory_lot
Consume(lot_id, q) ==
    /\ LET r == ConsumeInventoryLot(lots, products, lot_id, q)
       IN  /\ lots' = r.lots
           /\ products' = r.products
           /\ last' = Called("consume_inventory_lot",
                             IF r.ret THEN "true" ELSE "false",
                             [lot_id |-> lot_id, quantity |-> q])
    /\ UNCHANGED <<ledgerVars, recordVars>>
    /\ UNCHANGED <<partyVars, returnVars, terminals>>

\* Database.get_fifo_cost; `ord` is the row order the lots query returned.
Quote(p, n, ord) ==
    /\ ord \in GetInventoryLots(lots, p)
    /\ last' = Called("get_fifo_cost", GetFifoCost(lots, ord, n),
                      [product_id |-> p, quantity |-> n, ord |-> ord])
    /\ UNCHANGED <<ledgerVars, stockVars, recordVars>>
    /\ UNCHANGED <<partyVars, returnVars, terminals>>

NextLots ==
    \/ \E pr \in Prices : AddProduct(SetMin(Costs), pr)
    \/ \E p \in Products : DeleteProduct(p)
    \/ \E p \in Products, q \in Quantities :
          AddLot(p, 0, q, SetMin(Costs), SetMin(Dates))
    \/ \E l \in 1..(MaxLots + 1), q \in Quantities : Consume(l, q)

\* The lot ledger alone: products, lots received and consumed.
SpecLots == Init /\ [][NextLots]_vars

\* Any lot table of up to MaxLots rows, every row with
\* 0 <= quantity_remaining <= quantity_purchased, beside products whose
\* quantity is the sum of their lots: the inputs of get_fifo_cost.
LotRows ==
    {[product_id |-> p, purchase_id |-> 0,
      quantity_purchased |-> MaxQty, quantity_remaining |-> r,
      cost_per_unit |-> c, date_acquired |-> d] :
        p \in Products, r \in 0..MaxQty, c \in Costs, d \in Dates}

InitFifo ==
    /\ accounts = DefaultChart
    /\ journal = <<>>
    /\ lots \in UNION {[1..n -> LotRows] : n \in 0..MaxLots}
    /\ products = [p \in Products |->
                      [state |-> "active", quantity |-> LotSum(lots, p, 1),
                       cost_price |-> SetMin(Costs),
                       selling_price |-> SetMin(Prices)]]
    /\ purchases = <<>>
    /\ sales = <<>>
    /\ customers = [c \in Customers |-> NoCustomer]
    /\ cashbook = <<>>
    /\ purchase_returns = <<>>
    /\ sales_returns = <<>>
    /\ terminals = [t \in Terminals |-> Idle]
    /\ last = [op |-> "init", ret |-> "", arg |-> <<>>]

NextFifo ==
    \E p \in Products, n \in Needs :
        \E ord \in GetInventoryLots(lots, p) : Quote(p, n, ord)

\* get_fifo_cost applied to every lot table within the bounds.
SpecFifo == InitFifo /\ [][NextFifo]_vars

\* The calls consume_inventory_lot(lot_id, quantity_consumed) for the entries
\* of a plan from the j-th on, one after the other; `returned` collects what
\* each call returned.
RECURSIVE ConsumeEach(_, _, _, _, _)
ConsumeEach(lts, prods, plan, j, returned) ==
    IF j > Len(plan)
    THEN [lots |-> lts, products |-> prods, returned |-> returned]
    ELSE LET c == ConsumeInventoryLot(lts, prods, plan[j].lot_id,
                                      plan[j].quantity_consumed)
         IN  ConsumeEach(c.lots, c.products, plan, j + 1,
                         Append(returned, c.ret))

\* get_fifo_cost(p, n), then consume_inventory_lot for every entry of the plan
\* it returned, nothing else running in between (the loop of
\* process_sales_transaction for one item).
QuoteAndConsume(p, n, ord) ==
    /\ ord \in GetInventoryLots(lots, p)
    /\ LET quote == GetFifoCost(lots, ord, n)
           c == ConsumeEach(lots, products, quote.lots_consumed, 1, <<>>)
       IN  /\ lots' = c.lots
           /\ products' = c.products
           /\ last' = Called("quote_and_consume",
                             IF quote.none THEN "none" ELSE "plan",
                             [product_id |-> p, quantity |-> n,
                              quote |-> quote, returned |-> c.returned])
    /\ UNCHANGED <<ledgerVars, recordVars, partyVars, returnVars, terminals>>

\* ------------------------------------------------------- stock movements
\* No product's quantity runs beyond the modelled range.
QtyOk(prods) == \A p \in Products : Abs(prods[p].quantity) <= MaxStock

\* create_purchase's loop over the items:
\* UPDATE products SET quantity = quantity + ?, cost_price = ? WHERE id = ?
RECURSIVE ReceiveItems(_, _)
ReceiveItems(prods, items) ==
    IF items = <<>> THEN prods
    ELSE LET item == Head(items)
             p == item.product_id
         IN  ReceiveItems(
                 IF ProductExists(prods, p)
                 THEN [prods EXCEPT ![p].quantity = @ + item.quantity,
                                    ![p].cost_price = item.unit_cost]
                 ELSE prods,
                 Tail(items))

\* sum(item['quantity'] * item['unit_cost'] for item in items)
RECURSIVE PurchaseTotal(_)
PurchaseTotal(items) ==
    IF items = <<>> THEN 0
    ELSE Head(items).quantity * Head(items).unit_cost + PurchaseTotal(Tail(items))

\* Database.create_purchase: the purchase row, and every item's quantity put
\* on the product row; no lot is written.
CreatePurchase(items, payment_type) ==
    /\ Len(purchases) < MaxPurchases
    /\ QtyOk(ReceiveItems(products, items))
    /\ purchases' = Append(purchases,
                           [payment_type |-> payment_type,
                            total_amount |-> PurchaseTotal(items),
                            status |-> "received"])
    /\ products' = ReceiveItems(products, items)
    /\ cashbook' = IF payment_type = "cash"
                   THEN Append(cashbook,
                               CashRow("Inventories", PurchaseTotal(items), 0))
                   ELSE cashbook
    /\ last' = Called("create_purchase", "id", [purchase_id |-> Len(purchases) + 1])
    /\ UNCHANGED <<ledgerVars, lots, sales>>
    /\ UNCHANGED <<customers, returnVars, terminals>>

\* Database.add_inventory_adjustment: the product row's quantity moved up or
\* down by the quantity given.
AddInventoryAdjustment(p, adjustment_type, q) ==
    /\ LET delta == IF adjustment_type = "increase" THEN q ELSE -q
       IN  /\ QtyOk(AddQuantity(products, p, delta))
           /\ products' = AddQuantity(products, p, delta)
    /\ last' = Called("add_inventory_adjustment", "true",
                      [product_id |-> p, adjustment_type |-> adjustment_type])
    /\ UNCHANGED <<ledgerVars, lots, recordVars>>
    /\ UNCHANGED <<partyVars, returnVars, terminals>>

\* A row of purchase_returns (ref = purchase_id) or sales_returns
\* (ref = sale_id).
ReturnRow(ref, p, q, total) ==
    [ref |-> ref, product_id |-> p, quantity |-> q, total |-> total]

\* Database.add_purchase_return: the return row, the quantity taken off the
\* product row and the reversing entry posted through the engine, whose commit
\* (or rollback) ends the transaction all three belong to.
AddPurchaseReturn(purchase_id, p, q, unit_cost, fault) ==
    /\ Len(journal) < MaxEntries
    /\ LET payment_type == IF purchase_id \in DOMAIN purchases
                           THEN purchases[purchase_id].payment_type
                           ELSE "credit"
           r == EngineCreateJournalEntry(accounts, journal, "general",
                    PurchaseReturnLines(payment_type, q * unit_cost), fault)
           moved == IF r.ret = "id" THEN AddQuantity(products, p, -q) ELSE products
       IN  /\ QtyOk(moved)
           /\ accounts' = r.accounts
           /\ journal' = r.journal
           /\ products' = moved
           /\ purchase_returns' =
                 IF r.ret = "id"
                 THEN Append(purchase_returns,
                             ReturnRow(purchase_id, p, q, q * unit_cost))
                 ELSE purchase_returns
           /\ last' = Called("add_purchase_return", r.ret,
                             [product_id |-> p, quantity |-> q,
                              purchase_id |-> purchase_id,
                              unit_cost |-> unit_cost, fault |-> fault])
    /\ UNCHANGED <<lots, recordVars>>
    /\ UNCHANGED <<partyVars, sales_returns, terminals>>

\* Database.add_sales_return: ValueError for an unknown product; else the
\* quantity put back on the product row and the four-line entry posted.
AddSalesReturn(p, q, unit_price, fault) ==
    /\ Len(journal) < MaxEntries
    /\ IF ~ProductExists(products, p)
       THEN /\ last' = Called("add_sales_return", "raised",
                              [product_id |-> p, quantity |-> q,
                               unit_price |-> unit_price, fault |-> fault])
            /\ UNCHANGED <<ledgerVars, stockVars, sales_returns>>
       ELSE LET r == EngineCreateJournalEntry(accounts, journal, "general",
                         SalesReturnLines(q * unit_price,
                                          q * products[p].cost_price), fault)
                moved == IF r.ret = "id" THEN AddQuantity(products, p, q)
                         ELSE products
            IN  /\ QtyOk(moved)
                /\ accounts' = r.accounts
                /\ journal' = r.journal
                /\ products' = moved
                /\ sales_returns' =
                      IF r.ret = "id"
                      THEN Append(sales_returns,
                                  ReturnRow(0, p, q, q * unit_price))
                      ELSE sales_returns
                /\ last' = Called("add_sales_return", r.ret,
                                  [product_id |-> p, quantity |-> q,
                                   unit_price |-> unit_price, fault |-> fault])
                /\ UNCHANGED lots
    /\ UNCHANGED recordVars
    /\ UNCHANGED <<partyVars, purchase_returns, terminals>>

PurchaseItem(p, q, unit_cost) ==
    [product_id |-> p, quantity |-> q, unit_cost |-> unit_cost]

\* The stock movements are tried on one product, the other left as created;
\* returns are of one unit.
Moved == {SetMin(Products)}

NextStock ==
    \/ \E pr \in Prices : AddProduct(SetMin(Costs), pr)
    \/ \E p \in Moved, q \in Quantities :
          AddLot(p, 0, q, SetMin(Costs), SetMin(Dates))
    \/ \E l \in 1..MaxLots, q \in Quantities : Consume(l, q)
    \/ \E p \in Moved, q \in Quantities, pt \in PaymentTypes :
          CreatePurchase(<<PurchaseItem(p, q, SetMin(Costs))>>, pt)
    \/ \E p \in Moved, t \in {"increase", "decrease"}, q \in Quantities :
          AddInventoryAdjustment(p, t, q)
    \/ \E pid \in 0..MaxPurchases, p \in Moved :
          AddPurchaseReturn(pid, p, 1, SetMin(Costs), NoFault)
    \/ \E p \in Moved : AddSalesReturn(p, 1, SetMin(Prices), NoFault)

\* Every operation that writes a product's quantity.
SpecStock == Init /\ [][NextStock]_vars

\* A fault during a return: none, or one of each kind while the reversing
\* entry is posted.
ReturnFaults ==
    {NoFault, [kind |-> "line", at |-> 1], [kind |-> "balance", at |-> 2],
     [kind |-> "commit", at |-> 0]}

ReturnsMade == Len(purchase_returns) + Len(sales_returns)

NextReturns ==
    \/ \E pr \in Prices : AddProduct(SetMin(Costs), pr)
    \/ \E p \in Moved, pt \in PaymentTypes :
          CreatePurchase(<<PurchaseItem(p, MaxQty, SetMin(Costs))>>, pt)
    \/ /\ ReturnsMade < MaxReturns
       /\ \E pid \in 0..MaxPurchases, p \in Moved, q \in {1, MaxQty},
             f \in ReturnFaults :
             AddPurchaseReturn(pid, p, q, SetMin(Costs), f)
    \/ /\ ReturnsMade < MaxReturns
       /\ \E p \in Moved, q \in {1, MaxQty}, pr \in Prices, f \in ReturnFaults :
             AddSalesReturn(p, q, pr, f)

\* Purchases and returns of one product, the storage failing at any point of
\* a return.
SpecReturns == Init /\ [][NextReturns]_vars

\* ------------------------------------------------------------------ sales
Item(p, q, unit_price) ==
    [product_id |-> p, quantity |-> q, unit_price |-> unit_price]

\* The cart is a dict keyed by product id: every product at most once, at the
\* product's selling price.
ActiveProducts == {x \in Products : ProductExists(products, x)}

Carts ==
    {<<Item(p, q, products[p].selling_price)>> :
        p \in ActiveProducts, q \in Quantities}
    \cup {<<Item(pp[1], q1, products[pp[1]].selling_price),
            Item(pp[2], q2, products[pp[2]].selling_price)>> :
            pp \in {x \in ActiveProducts \X ActiveProducts : x[1] # x[2]},
            q1 \in Quantities, q2 \in Quantities}

\* One row order per product for the lots query of this call.
OrdersOk(ords) == \A p \in Products : ords[p] \in GetInventoryLots(lots, p)

OrderChoices ==
    {ords \in [Products -> UNION {GetInventoryLots(lots, p) : p \in Products}] :
        OrdersOk(ords)}

\* create_sale's rows: the sale with its sale_items (status defaults to
\* 'completed'; customer_id 0 is NULL), and the cash transaction of a cash sale.
SaleRow(items, customer_id, payment_type) ==
    [customer_id |-> customer_id,
     payment_type |-> payment_type,
     total_amount |-> ItemsTotal(items),
     status |-> "completed",
     items |-> items]

SaleCash(book, sale_id, payment_type, total_amount) ==
    IF payment_type = "cash"
    THEN Append(book, CashRow("Cash Sales", total_amount, sale_id))
    ELSE book

\* A fault during a sale: none, the process stopping (a crash, or an exception
\* out of consume_inventory_lot) when `at` consumptions have committed, or a
\* storage fault while the entry is posted.
SaleFaults ==
    {NoFault, [kind |-> "header", at |-> 0], [kind |-> "commit", at |-> 0]}
    \cup {[kind |-> "stop", at |-> k] : k \in 0..MaxLots}

\* AccountingEngine.process_sales_transaction on the tables given: the loop
\* over the items, each consume_inventory_lot committing on its own, then the
\* four-line entry.  ret: "stopped", or create_journal_entry's result.
ProcessSale(accts, jrnl, lts, prods, ords, items, total_amount, payment_type, fault) ==
    LET budget == IF fault.kind = "stop" THEN fault.at ELSE Len(lts) + 1
        loop == SaleLoop(lts, prods, ords, items, 1, 0, budget, FALSE)
    IN  IF loop.stopped \/ fault.kind = "stop"
        THEN [ret |-> "stopped", accounts |-> accts, journal |-> jrnl,
              lots |-> loop.lots, products |-> loop.products]
        ELSE LET r == EngineCreateJournalEntry(accts, jrnl, "sales",
                          SaleLines(payment_type, total_amount, loop.total_cogs),
                          fault)
             IN  [ret |-> r.ret, accounts |-> r.accounts, journal |-> r.journal,
                  lots |-> loop.lots, products |-> loop.products]

\* What `last` keeps of a sale: whether some item's quote said insufficient
\* stock when the sale began, and the fault that struck.
SaleCall(ords, items, fault) ==
    [insufficient |-> ~StockAvailable(lots, ords, items), fault |-> fault]

\* AccountingEngine.process_sales_transaction
ProcessSalesTransaction(items, payment_type, ords, fault) ==
    /\ Len(journal) < MaxEntries
    /\ OrdersOk(ords)
    /\ LET r == ProcessSale(accounts, journal, lots, products, ords, items,
                            ItemsTotal(items), payment_type, fault)
       IN  /\ accounts' = r.accounts
           /\ journal' = r.journal
           /\ lots' = r.lots
           /\ products' = r.products
           /\ last' = Called("process_sales_transaction", r.ret,
                             SaleCall(ords, items, fault))
    /\ UNCHANGED recordVars
    /\ UNCHANGED <<partyVars, returnVars, terminals>>

\* checkout: create_sale (stock validation, the sale row), then
\* process_sales_transaction for the same items.
CheckoutHandler(items, payment_type, ords, fault) ==
    /\ OrdersOk(ords)
    /\ IF ~StockAvailable(lots, ords, items)
       THEN /\ last' = Called("checkout", "rejected", SaleCall(ords, items, fault))
            /\ UNCHANGED <<ledgerVars, stockVars, sales, cashbook>>
       ELSE LET r == ProcessSale(accounts, journal, lots, products, ords, items,
                                 ItemsTotal(items), payment_type, fault)
            IN  /\ sales' = Append(sales, SaleRow(items, 0, payment_type))
                /\ cashbook' = SaleCash(cashbook, Len(sales) + 1, payment_type,
                                        ItemsTotal(items))
                /\ accounts' = r.accounts
                /\ journal' = r.journal
                /\ lots' = r.lots
                /\ products' = r.products
                /\ last' = Called("checkout", r.ret, SaleCall(ords, items, fault))
    /\ UNCHANGED purchases
    /\ UNCHANGED <<customers, returnVars, terminals>>

\* checkout, within the bounds on sales and entries.
Checkout(items, payment_type, ords, fault) ==
    /\ Len(sales) < MaxSales
    /\ Len(journal) < MaxEntries
    /\ CheckoutHandler(items, payment_type, ords, fault)

NextSale ==
    \/ \E pr \in Prices : AddProduct(SetMin(Costs), pr)
    \/ \E p \in Products, q \in Quantities :
          AddLot(p, 0, q, SetMin(Costs), SetMin(Dates))
    \/ \E items \in Carts, ords \in OrderChoices :
          ProcessSalesTransaction(items, "cash", ords, NoFault)
    \/ \E items \in Carts, pt \in PaymentTypes, ords \in OrderChoices,
          f \in SaleFaults :
          Checkout(items, pt, ords, f)

\* Stock received and sold, the storage failing or the process stopping at
\* any point of a sale.
SpecSale == Init /\ [][NextSale]_vars

\* Two terminals on one database file.  A checkout is two calls, each ending
\* with its own commit: create_sale (the stock validation by quote, the sale
\* row), then process_sales_transaction (quote again, consume, post).  Nothing
\* is held between the two, so the other terminal's calls may run in between.
CreateSale(t, items, payment_type, ords) ==
    /\ terminals[t].pc = "idle"
    /\ Len(sales) < MaxCheckouts
    /\ OrdersOk(ords)
    /\ IF ~StockAvailable(lots, ords, items)
       THEN /\ last' = Called("create_sale", "none", [terminal |-> t])
            /\ UNCHANGED <<sales, cashbook, terminals>>
       ELSE /\ sales' = Append(sales, SaleRow(items, 0, payment_type))
            /\ cashbook' = SaleCash(cashbook, Len(sales) + 1, payment_type,
                                    ItemsTotal(items))
            /\ terminals' = [terminals EXCEPT ![t] =
                                [pc |-> "created", sale_id |-> Len(sales) + 1,
                                 items |-> items, payment_type |-> payment_type]]
            /\ last' = Called("create_sale", "id", [terminal |-> t])
    /\ UNCHANGED <<ledgerVars, stockVars, purchases, customers, returnVars>>

ProcessCreatedSale(t, ords) ==
    /\ terminals[t].pc = "created"
    /\ Len(journal) < MaxEntries
    /\ OrdersOk(ords)
    /\ LET items == terminals[t].items
           r == ProcessSale(accounts, journal, lots, products, ords, items,
                            ItemsTotal(items), terminals[t].payment_type, NoFault)
       IN  /\ accounts' = r.accounts
           /\ journal' = r.journal
           /\ lots' = r.lots
           /\ products' = r.products
           /\ last' = Called("process_sales_transaction", r.ret,
                             [insufficient |-> ~StockAvailable(lots, ords, items),
                              fault |-> NoFault, items |-> items])
    /\ terminals' = [terminals EXCEPT ![t] = Idle]
    /\ UNCHANGED <<recordVars, partyVars, returnVars>>

NextTerminals ==
    \/ \E pr \in Prices : AddProduct(SetMin(Costs), pr)
    \/ \E p \in Moved, q \in Quantities :
          AddLot(p, 0, q, SetMin(Costs), SetMin(Dates))
    \/ \E t \in Terminals, items \in Carts, pt \in PaymentTypes,
          ords \in OrderChoices :
          CreateSale(t, items, pt, ords)
    \/ \E t \in Terminals, ords \in OrderChoices : ProcessCreatedSale(t, ords)

\* Checkouts of two terminals interleaved call by call.
SpecTerminals == Init /\ [][NextTerminals]_vars

NextCheckout ==
    \/ \E pr \in Prices : AddProduct(SetMin(Costs), pr)
    \/ \E p \in Moved, c \in Costs : AddLot(p, 0, 1, c, SetMin(Dates))
    \/ \E p \in Products \ Moved :
          AddLot(p, 0, MaxQty, SetMin(Costs), SetMin(Dates))
    \/ \E items \in Carts, pt \in PaymentTypes, ords \in OrderChoices :
          Checkout(items, pt, ords, NoFault)

\* Checkouts over one-unit lots of different unit costs acquired on the same
\* date (the lots query may return them in either order) and full lots of
\* another product, nothing failing.
SpecCheckout == Init /\ [][NextCheckout]_vars

\* -------------------------------------------------------------- bad debts
\* update_customer_balance: UPDATE customers SET balance = balance + ? WHERE
\* id = ? (no such row, or id NULL: no change); it commits on its own.
UpdateCustomerBalance(custs, c, amount) ==
    IF c \in DOMAIN custs /\ custs[c].state = "active"
    THEN [custs EXCEPT ![c].balance = @ + amount]
    ELSE custs

\* The sum of the 'Customer Payment' cash transactions whose description names
\* sale k.
RECURSIVE PaidFor(_, _)
PaidFor(book, k) ==
    IF book = <<>> THEN 0
    ELSE (IF Head(book).type = "Customer Payment" /\ Head(book).sale_id = k
          THEN Head(book).amount ELSE 0)
         + PaidFor(Tail(book), k)

CustomerBalance(custs, c) ==
    IF c \in DOMAIN custs /\ custs[c].state = "active" THEN custs[c].balance ELSE 0

\* get_credit_sales: the completed credit sales still owed, a walk-in sale by
\* its amount less the payments naming it, a registered customer's sale by
\* the customer's balance.
OutstandingBalance(sls, custs, book, k) ==
    IF sls[k].customer_id = 0
    THEN sls[k].total_amount - PaidFor(book, k)
    ELSE CustomerBalance(custs, sls[k].customer_id)

GetCreditSales(sls, custs, book) ==
    {k \in DOMAIN sls :
        /\ sls[k].payment_type = "credit"
        /\ sls[k].status = "completed"
        /\ OutstandingBalance(sls, custs, book, k) > 0}

\* (variant: the sale looked up without its status)
OpenCreditSaleAnyStatus(sls, sale_id) ==
    /\ sale_id \in DOMAIN sls
    /\ sls[sale_id].payment_type = "credit"

\* record_bad_debt_write_off's lookup: WHERE s.id = ? AND s.payment_type =
\* 'credit' AND s.status = 'completed'
OpenCreditSale(sls, sale_id) ==
    /\ sale_id \in DOMAIN sls
    /\ sls[sale_id].payment_type = "credit"
    /\ sls[sale_id].status = "completed"

\* (variant: any amount accepted)
WriteOffAmountOkAny(sls, sale_id, amount) == TRUE

\* record_bad_debt_write_off's two amount checks.
WriteOffAmountOk(sls, sale_id, amount) ==
    /\ ~(amount > sls[sale_id].total_amount)
    /\ ~(amount <= 0)

\* A fault inside record_bad_debt_write_off: an exception from the insert of
\* the cash transaction, from the UPDATE of the sale (or the process stopping
\* there), or from the final commit.
WriteOffFaults ==
    {NoFault, [kind |-> "insert", at |-> 0], [kind |-> "status", at |-> 0],
     [kind |-> "dbcommit", at |-> 0]}

\* Database.record_bad_debt_write_off on the tables given.  ret: "raised" or
\* "true".  update_customer_balance's commit makes the cash transaction and
\* the balance durable before the sale's status is written.
DbRecordBadDebtWriteOff(sls, custs, book, customer_id, sale_id, amount, fault) ==
    IF \/ ~OpenCreditSale(sls, sale_id)
       \/ ~WriteOffAmountOk(sls, sale_id, amount)
       \/ fault.kind = "insert"
    THEN [ret |-> "raised", sales |-> sls, customers |-> custs, cashbook |-> book]
    ELSE LET booked == Append(book, CashRow("Bad Debt Write-off", amount, sale_id))
             paid == UpdateCustomerBalance(custs, customer_id, -amount)
         IN  IF fault.kind \in {"status", "dbcommit"}
             THEN [ret |-> "raised", sales |-> sls, customers |-> paid,
                   cashbook |-> booked]
             ELSE [ret |-> "true",
                   sales |-> [sls EXCEPT ![sale_id].status = "written_off"],
                   customers |-> paid, cashbook |-> booked]

\* process_bad_debt_write_off's two lines.
BadDebtLines(amount) ==
    << Line("Bad Debt Expense", amount, 0),
       Line("Accounts Receivable", 0, amount) >>

\* process_customer_payment's two lines.
CustomerPaymentLines(amount) ==
    << Line("Cash", amount, 0), Line("Accounts Receivable", 0, amount) >>

\* What `last` keeps of a write-off call.
WriteOffCall(customer_id, sale_id, amount, fault) ==
    [customer_id |-> customer_id, sale_id |-> sale_id, amount |-> amount,
     fault |-> fault]

\* Database.add_customer
AddCustomer(c) ==
    /\ customers[c].state = "none"
    /\ customers' = [customers EXCEPT ![c] = [state |-> "active", balance |-> 0]]
    /\ last' = Called("add_customer", "id", [customer_id |-> c])
    /\ UNCHANGED <<ledgerVars, stockVars, recordVars, cashbook, returnVars,
                   terminals>>

\* Database.create_sale for a registered customer, called on its own (as
\* init_db does): the sale row, and for a credit sale add_non_cash_in raising
\* the customer's balance by the sale amount.
CreateCustomerSale(c, items, payment_type, ords) ==
    /\ Len(sales) < MaxSales
    /\ OrdersOk(ords)
    /\ IF ~StockAvailable(lots, ords, items)
       THEN /\ last' = Called("create_sale", "none", [customer_id |-> c])
            /\ UNCHANGED <<sales, cashbook, customers>>
       ELSE /\ sales' = Append(sales, SaleRow(items, c, payment_type))
            /\ cashbook' = SaleCash(cashbook, Len(sales) + 1, payment_type,
                                    ItemsTotal(items))
            /\ customers' = IF payment_type = "credit"
                            THEN UpdateCustomerBalance(customers, c,
                                                       ItemsTotal(items))
                            ELSE customers
            /\ last' = Called("create_sale", "id", [customer_id |-> c])
    /\ UNCHANGED <<ledgerVars, stockVars, purchases, returnVars, terminals>>

\* Database.record_bad_debt_write_off
RecordBadDebtWriteOff(customer_id, sale_id, amount, fault) ==
    /\ LET r == DbRecordBadDebtWriteOff(sales, customers, cashbook,
                                        customer_id, sale_id, amount, fault)
       IN  /\ sales' = r.sales
           /\ customers' = r.customers
           /\ cashbook' = r.cashbook
           /\ last' = Called("record_bad_debt_write_off", r.ret,
                             WriteOffCall(customer_id, sale_id, amount, fault))
    /\ UNCHANGED <<ledgerVars, stockVars, purchases, returnVars, terminals>>

\* AccountingEngine.process_bad_debt_write_off: the entry is posted for
\* whatever sale id and amount it is handed.
ProcessBadDebtWriteOff(customer_id, sale_id, amount, fault) ==
    /\ Len(journal) < MaxEntries
    /\ LET r == EngineCreateJournalEntry(accounts, journal, "general",
                                         BadDebtLines(amount), fault)
       IN  /\ accounts' = r.accounts
           /\ journal' = r.journal
           /\ last' = Called("process_bad_debt_write_off", r.ret,
                             WriteOffCall(customer_id, sale_id, amount, fault))
    /\ UNCHANGED <<stockVars, recordVars, partyVars, returnVars, terminals>>

\* payments_screen.record_bad_debt for a row of the credit-sales listing: the
\* outstanding balance as amount; record_bad_debt_write_off, and when that
\* returns, process_bad_debt_write_off, whose failure is only reported.
RecordBadDebt(sale_id, fault) ==
    /\ Len(journal) < MaxEntries
    /\ sale_id \in GetCreditSales(sales, customers, cashbook)
    /\ LET customer_id == sales[sale_id].customer_id
           amount == OutstandingBalance(sales, customers, cashbook, sale_id)
           d == DbRecordBadDebtWriteOff(sales, customers, cashbook,
                                        customer_id, sale_id, amount, fault)
           r == EngineCreateJournalEntry(accounts, journal, "general",
                                         BadDebtLines(amount), fault)
       IN  /\ sales' = d.sales
           /\ customers' = d.customers
           /\ cashbook' = d.cashbook
           /\ IF d.ret = "raised"
              THEN /\ UNCHANGED ledgerVars
                   /\ last' = Called("record_bad_debt", "error",
                                     WriteOffCall(customer_id, sale_id, amount,
                                                  fault))
              ELSE /\ accounts' = r.accounts
                   /\ journal' = r.journal
                   /\ last' = Called("record_bad_debt",
                                     IF r.ret = "id" THEN "id" ELSE "warning",
                                     WriteOffCall(customer_id, sale_id, amount,
                                                  fault))
    /\ UNCHANGED <<stockVars, purchases, returnVars, terminals>>

\* A fault in record_customer_payment: its own INSERT raising, or the posting
\* of the entry failing inside create_journal_entry.
PaymentFaults ==
    {NoFault, [kind |-> "insert", at |-> 0], [kind |-> "header", at |-> 0],
     [kind |-> "commit", at |-> 0]}

\* Database.record_customer_payment on the tables given; customer_id 0 is
\* None (walk-in).  ret: "raised" (the INSERT raised, nothing written) or
\* "id".  For a registered customer update_customer_balance commits the cash
\* transaction and the balance before the entry is posted; for a walk-in the
\* cash transaction is still pending when the entry is posted, and the
\* rollback of a failed posting takes it away.
DbRecordCustomerPayment(accts, jrnl, custs, book, customer_id, sale_id, amount, fault) ==
    IF fault.kind = "insert"
    THEN [ret |-> "raised", accounts |-> accts, journal |-> jrnl,
          customers |-> custs, cashbook |-> book]
    ELSE LET booked == Append(book, CashRow("Customer Payment", amount, sale_id))
             paid == IF customer_id # 0
                     THEN UpdateCustomerBalance(custs, customer_id, -amount)
                     ELSE custs
             r == EngineCreateJournalEntry(accts, jrnl, "cash_receipt",
                                           CustomerPaymentLines(amount), fault)
         IN  [ret |-> "id", accounts |-> r.accounts, journal |-> r.journal,
              customers |-> paid,
              cashbook |-> IF r.ret = "id" \/ customer_id # 0
                           THEN booked ELSE book]

\* Database.record_customer_payment: the 'Customer Payment' cash transaction,
\* the customer's balance (committed by update_customer_balance), and the
\* entry posted by process_customer_payment.
RecordCustomerPaymentFaulty(customer_id, sale_id, amount, fault) ==
    /\ Len(journal) < MaxEntries
    /\ LET r == DbRecordCustomerPayment(accounts, journal, customers, cashbook,
                                        customer_id, sale_id, amount, fault)
       IN  /\ accounts' = r.accounts
           /\ journal' = r.journal
           /\ cashbook' = r.cashbook
           /\ customers' = r.customers
           /\ last' = Called("record_customer_payment", r.ret,
                             [customer_id |-> customer_id, sale_id |-> sale_id,
                              amount |-> amount, fault |-> fault])
    /\ UNCHANGED <<stockVars, recordVars, returnVars, terminals>>

\* record_customer_payment with the storage not failing.
RecordCustomerPayment(customer_id, sale_id, amount) ==
    /\ Len(journal) < MaxEntries
    /\ LET r == EngineCreateJournalEntry(accounts, journal, "cash_receipt",
                                         CustomerPaymentLines(amount), NoFault)
       IN  /\ accounts' = r.accounts
           /\ journal' = r.journal
    /\ cashbook' = Append(cashbook, CashRow("Customer Payment", amount, sale_id))
    /\ customers' = UpdateCustomerBalance(customers, customer_id, -amount)
    /\ last' = Called("record_customer_payment", "id",
                      [customer_id |-> customer_id, sale_id |-> sale_id,
                       amount |-> amount])
    /\ UNCHANGED <<stockVars, recordVars, returnVars, terminals>>

\* Carts of one unit of the product that has stock.
UnitCarts ==
    {c \in Carts : Len(c) = 1 /\ c[1].product_id \in Moved /\ c[1].quantity = 1}

\* The customer of sale k as the payments screen hands it on (0: walk-in, or
\* no such sale).
CustomerOf(k) == IF k \in DOMAIN sales THEN sales[k].customer_id ELSE 0

\* Amounts tried against sale `sale_id`: negative, zero, part of the sale
\* amount, the sale amount, and more than the sale amount.
WriteOffAmounts(sale_id) ==
    IF sale_id \in DOMAIN sales
    THEN {-1, 0, 1, sales[sale_id].total_amount, sales[sale_id].total_amount + 1}
    ELSE {1}

\* A fault in the write-off handler: in record_bad_debt_write_off, or while
\* the entry is posted.
BadDebtFaults ==
    WriteOffFaults \cup {[kind |-> "header", at |-> 0], [kind |-> "commit", at |-> 0]}

NextWriteOff ==
    \/ \E pr \in Prices : AddProduct(SetMin(Costs), pr)
    \/ /\ lots = <<>>
       /\ \E p \in Moved : AddLot(p, 0, MaxQty, SetMin(Costs), SetMin(Dates))
    \/ \E c \in Customers : AddCustomer(c)
    \/ \E items \in UnitCarts, pt \in PaymentTypes, ords \in OrderChoices :
          Checkout(items, pt, ords, NoFault)
    \/ \E c \in Customers, items \in UnitCarts, ords \in OrderChoices :
          CreateCustomerSale(c, items, "credit", ords)
    \/ /\ Len(cashbook) < MaxCashRows
       /\ \E k \in 1..(MaxSales + 1) :
             \E amount \in WriteOffAmounts(k), f \in WriteOffFaults :
                RecordBadDebtWriteOff(CustomerOf(k), k, amount, f)
    \/ /\ Len(cashbook) < MaxCashRows
       /\ \E k \in DOMAIN sales : RecordCustomerPayment(CustomerOf(k), k, 1)

\* Credit sales, payments and write-offs recorded in the database, the
\* storage failing at any point of a write-off.
SpecWriteOff == Init /\ [][NextWriteOff]_vars

NextBadDebt ==
    \/ \E pr \in Prices : AddProduct(SetMin(Costs), pr)
    \/ /\ lots = <<>>
       /\ \E p \in Moved : AddLot(p, 0, MaxQty, SetMin(Costs), SetMin(Dates))
    \/ \E items \in UnitCarts, pt \in PaymentTypes, ords \in OrderChoices :
          Checkout(items, pt, ords, NoFault)
    \/ \E c \in Customers : AddCustomer(c)
    \/ \E c \in Customers, items \in UnitCarts, ords \in OrderChoices :
          CreateCustomerSale(c, items, "credit", ords)
    \/ \E k \in 1..(MaxSales + 1) : ProcessBadDebtWriteOff(0, k, 1, NoFault)
    \/ /\ Len(cashbook) < MaxCashRows
       /\ \E k \in DOMAIN sales, f \in BadDebtFaults : RecordBadDebt(k, f)

\* The write-off handler of the payments screen and the engine's processor,
\* the storage failing at any point.
SpecBadDebt == Init /\ [][NextBadDebt]_vars

\* Amounts a customer pays: a unit, or the whole of a one-unit sale.
PaymentAmounts == {1, SetMin(Prices)}

NextPayment ==
    \/ \E pr \in Prices : AddProduct(SetMin(Costs), pr)
    \/ /\ lots = <<>>
       /\ \E p \in Moved : AddLot(p, 0, MaxQty, SetMin(Costs), SetMin(Dates))
    \/ \E c \in Customers : AddCustomer(c)
    \/ \E items \in UnitCarts, ords \in OrderChoices :
          Checkout(items, "credit", ords, NoFault)
    \/ \E c \in Customers, items \in UnitCarts, ords \in OrderChoices :
          /\ customers[c].state = "active"
          /\ CreateCustomerSale(c, items, "credit", ords)
    \/ /\ Len(cashbook) < MaxCashRows
       /\ \E k \in DOMAIN sales, a \in PaymentAmounts, f \in PaymentFaults :
             RecordCustomerPaymentFaulty(CustomerOf(k), k, a, f)

\* Credit sales and the payments received for them, the storage failing at
\* any point of a payment.
SpecPayment == Init /\ [][NextPayment]_vars

\* ------------------------------------------------- other processors
ExpenseTypes ==
    {"rent", "utilities", "office_supplies", "advertising", "general", "other"}

\* process_expense_transaction's expense_accounts.get(expense_type,
\* 'Operating Expenses')
ExpenseAccount(expense_type) ==
    CASE expense_type = "rent" -> "Rent Expense"
      [] expense_type = "utilities" -> "Utilities Expense"
      [] expense_type = "office_supplies" -> "Office Supplies Expense"
      [] expense_type = "advertising" -> "Advertising Expense"
      [] OTHER -> "Operating Expenses"

ExpenseLines(expense_type, amount, payment_type) ==
    << Line(ExpenseAccount(expense_type), amount, 0),
       Line(IF payment_type = "cash" THEN "Cash" ELSE "Accounts Payable",
            0, amount) >>

\* process_supplier_payment's two lines.
SupplierPaymentLines(amount) ==
    << Line("Accounts Payable", amount, 0), Line("Cash", 0, amount) >>

\* add_cash_investment's two lines.
CashInvestmentLines(amount) ==
    << Line("Cash", amount, 0), Line("Owner Capital", 0, amount) >>

\* A processor that only builds its lines and posts them.
PostLines(op, jtype, lines, arg) ==
    /\ Len(journal) < MaxEntries
    /\ LET r == EngineCreateJournalEntry(accounts, journal, jtype, lines, NoFault)
       IN  /\ accounts' = r.accounts
           /\ journal' = r.journal
           /\ last' = Called(op, r.ret, arg)

\* AccountingEngine.process_expense_transaction
ProcessExpenseTransaction(expense_type, amount, payment_type) ==
    /\ PostLines("process_expense_transaction", "cash_disbursement",
                 ExpenseLines(expense_type, amount, payment_type),
                 [expense_type |-> expense_type, amount |-> amount,
                  payment_type |-> payment_type])
    /\ UNCHANGED <<stockVars, recordVars, partyVars, returnVars, terminals>>

\* AccountingEngine.process_supplier_payment
ProcessSupplierPayment(amount) ==
    /\ PostLines("process_supplier_payment", "cash_disbursement",
                 SupplierPaymentLines(amount), [amount |-> amount])
    /\ UNCHANGED <<stockVars, recordVars, partyVars, returnVars, terminals>>

\* AccountingEngine.process_customer_payment
ProcessCustomerPayment(amount) ==
    /\ PostLines("process_customer_payment", "cash_receipt",
                 CustomerPaymentLines(amount), [amount |-> amount])
    /\ UNCHANGED <<stockVars, recordVars, partyVars, returnVars, terminals>>

\* Database.add_cash_investment: the 'Investment' cash transaction and the
\* entry Dr Cash / Cr Owner Capital.
AddCashInvestment(amount) ==
    /\ PostLines("add_cash_investment", "general", CashInvestmentLines(amount),
                 [amount |-> amount])
    /\ cashbook' = Append(cashbook, CashRow("Investment", amount, 0))
    /\ UNCHANGED <<stockVars, recordVars, customers, returnVars, terminals>>

\* ------------------------------------------------------ chart maintenance
\* The accounts initialize_chart_of_accounts creates, in its order.
EngineChart ==
    << <<"1000", "Cash", "asset">>,
       <<"1100", "Accounts Receivable", "asset">>,
       <<"1200", "Inventory", "asset">>,
       <<"1300", "Prepaid Expenses", "asset">>,
       <<"1500", "Equipment", "asset">>,
       <<"1600", "Accumulated Depreciation - Equipment", "asset">>,
       <<"2000", "Accounts Payable", "liability">>,
       <<"2100", "Sales Tax Payable", "liability">>,
       <<"2200", "Accrued Expenses", "liability">>,
       <<"2500", "Notes Payable", "liability">>,
       <<"3000", "Owner's Capital", "equity">>,
       <<"3100", "Retained Earnings", "equity">>,
       <<"3200", "Owner's Drawings", "equity">>,
       <<"4000", "Sales Revenue", "revenue">>,
       <<"4100", "Service Revenue", "revenue">>,
       <<"4200", "Other Income", "revenue">>,
       <<"4300", "Sales Returns", "revenue">>,
       <<"5000", "Cost of Goods Sold", "expense">>,
       <<"6000", "Operating Expenses", "expense">>,
       <<"6100", "Rent Expense", "expense">>,
       <<"6200", "Utilities Expense", "expense">>,
       <<"6300", "Depreciation Expense", "expense">>,
       <<"6400", "Advertising Expense", "expense">>,
       <<"6500", "Office Supplies Expense", "expense">>,
       <<"6600", "Bad Debt Expense", "expense">> >>

AccountCodes(accts) == {accts[i].code : i \in DOMAIN accts}

\* create_account's INSERT OR IGNORE: account_code is the one UNIQUE column,
\* so the row is dropped when its code is taken and added otherwise.
InsertOrIgnoreAccount(accts, code, name, type) ==
    IF code \in AccountCodes(accts)
    THEN accts
    ELSE Append(accts, [code |-> code, name |-> name, type |-> type,
                        balance |-> 0])

\* The loop of initialize_chart_of_accounts from its i-th account on.
RECURSIVE CreateAccountsFrom(_, _)
CreateAccountsFrom(accts, i) ==
    IF i > Len(EngineChart) THEN accts
    ELSE CreateAccountsFrom(
             InsertOrIgnoreAccount(accts, EngineChart[i][1], EngineChart[i][2],
                                   EngineChart[i][3]),
             i + 1)

\* Codes and names handed to create_account: a code and a name of the default
\* chart, and codes and a name of no chart.
NewCodes == {"1001", "9001", "9002", "9003"}
NewNames == {"Cash", "Petty Cash"}

\* Rows whose code is in neither chart.
OwnAccounts(accts) ==
    {i \in DOMAIN accts : accts[i].code \in NewCodes \ AccountCodes(DefaultChart)}

\* AccountingEngine.create_account
CreateAccount(code, name, type) ==
    /\ Cardinality(OwnAccounts(accounts)) < MaxAccounts
    /\ accounts' = InsertOrIgnoreAccount(accounts, code, name, type)
    /\ last' = Called("create_account", "id",
                      [code |-> code, name |-> name, type |-> type])
    /\ UNCHANGED <<journal, stockVars, recordVars, partyVars, returnVars,
                   terminals>>

\* AccountingEngine.initialize_chart_of_accounts
InitializeChartOfAccounts ==
    /\ accounts' = CreateAccountsFrom(accounts, 1)
    /\ last' = Called("initialize_chart_of_accounts", "", <<>>)
    /\ UNCHANGED <<journal, stockVars, recordVars, partyVars, returnVars,
                   terminals>>

NextChart ==
    \/ \E code \in NewCodes, name \in NewNames, type \in {"asset", "revenue"} :
          CreateAccount(code, name, type)
    \/ InitializeChartOfAccounts
    \/ CreateJournalEntry("general",
                          <<Line("Cash", 1, 0), Line("Sales Revenue", 0, 1)>>,
                          NoFault)

\* Accounts created on top of the default chart, and entries posted to them.
SpecChart == Init /\ [][NextChart]_vars

\* ----------------------------------------------------------------- ledger
\* AccountingEngine.process_inventory_purchase
ProcessInventoryPurchase(total_amount, payment_type, is_beginning_inventory, fault) ==
    /\ Len(journal) < MaxEntries
    /\ LET r == EngineCreateJournalEntry(accounts, journal,
                    PurchaseJournalType(payment_type, is_beginning_inventory),
                    PurchaseLines(total_amount, payment_type, is_beginning_inventory),
                    fault)
       IN  /\ accounts' = r.accounts
           /\ journal' = r.journal
           /\ last' = Called("process_inventory_purchase", r.ret,
                             [total_amount |-> total_amount])
    /\ UNCHANGED <<stockVars, recordVars>>
    /\ UNCHANGED <<partyVars, returnVars, terminals>>

\* AccountingEngine.process_inventory_adjustment: None for an unknown product,
\* else an entry for cost_price * quantity.
ProcessInventoryAdjustment(p, adjustment_type, q, fault) ==
    /\ Len(journal) < MaxEntries
    /\ IF ~ProductExists(products, p)
       THEN /\ last' = Called("process_inventory_adjustment", "none",
                              [product_id |-> p])
            /\ UNCHANGED ledgerVars
       ELSE LET r == EngineCreateJournalEntry(accounts, journal, "general",
                         AdjustmentLines(adjustment_type,
                                         products[p].cost_price * q), fault)
            IN  /\ accounts' = r.accounts
                /\ journal' = r.journal
                /\ last' = Called("process_inventory_adjustment", r.ret,
                                  [product_id |-> p])
    /\ UNCHANGED <<stockVars, recordVars>>
    /\ UNCHANGED <<partyVars, returnVars, terminals>>

\* The inventory screen's restock of an existing product with the beginning
\* inventory box ticked: no purchase row; add_inventory_lot, the quantity
\* sync, then process_inventory_purchase for cost_price * quantity.
RecordBeginningInventory(p, q, cost) ==
    /\ Len(lots) < MaxLots
    /\ Len(journal) < MaxEntries
    /\ ProductExists(products, p)
    /\ LET a == AddInventoryLot(lots, products, p, 0, q, cost, SetMin(Dates))
           r == EngineCreateJournalEntry(accounts, journal, "general",
                    PurchaseLines(cost * q, "cash", TRUE), NoFault)
       IN  /\ lots' = a.lots
           /\ products' = SyncProductQuantities(a.lots, a.products)
           /\ accounts' = r.accounts
           /\ journal' = r.journal
           /\ last' = Called("record_beginning_inventory", r.ret,
                             [product_id |-> p, quantity |-> q])
    /\ UNCHANGED <<recordVars, partyVars, returnVars, terminals>>

\* The inventory screen's stock-in of an existing product: unless the
\* beginning inventory box is ticked, create_purchase (the purchase row, the
\* product's quantity and cost_price, the cash transaction of a cash
\* purchase); then add_inventory_lot, the quantity sync, and
\* process_inventory_purchase for cost_price * quantity.
SaveProductRestock(p, q, cost, payment_type, is_beginning_inventory) ==
    /\ ProductExists(products, p)
    /\ LET bought == IF is_beginning_inventory THEN products
                     ELSE ReceiveItems(products, <<PurchaseItem(p, q, cost)>>)
           purchase_id == IF is_beginning_inventory THEN 0
                          ELSE Len(purchases) + 1
           a == AddInventoryLot(lots, bought, p, purchase_id, q, cost,
                                SetMin(Dates))
           r == EngineCreateJournalEntry(accounts, journal,
                    PurchaseJournalType(payment_type, is_beginning_inventory),
                    PurchaseLines(cost * q, payment_type, is_beginning_inventory),
                    NoFault)
       IN  /\ purchases' = IF is_beginning_inventory THEN purchases
                           ELSE Append(purchases,
                                       [payment_type |-> payment_type,
                                        total_amount |-> q * cost,
                                        status |-> "received"])
           /\ cashbook' = IF ~is_beginning_inventory /\ payment_type = "cash"
                          THEN Append(cashbook,
                                      CashRow("Inventories", q * cost, 0))
                          ELSE cashbook
           /\ lots' = a.lots
           /\ products' = SyncProductQuantities(a.lots, a.products)
           /\ accounts' = r.accounts
           /\ journal' = r.journal
           /\ last' = Called("save_product", r.ret,
                             [product_id |-> p, quantity |-> q, cost |-> cost])
    /\ UNCHANGED <<sales, customers, returnVars, terminals>>

NextInventory ==
    \/ /\ ActiveProducts = {}
       /\ \E pr \in Prices : AddProduct(SetMin(Costs), pr)
    \/ /\ Len(lots) < MaxLots
       /\ \E p \in Moved, q \in {1, MaxQty}, c \in Costs, b \in BOOLEAN :
             SaveProductRestock(p, q, c, "cash", b)
    \/ /\ Len(sales) < MaxSales
       /\ \E items \in Carts, pt \in PaymentTypes, ords \in OrderChoices :
             CheckoutHandler(items, pt, ords, NoFault)

\* One terminal receiving stock through the inventory screen and selling it
\* through checkout, nothing failing.
SpecInventory == Init /\ [][NextInventory]_vars

\* The worked example's figures, in hundredths: unit cost 10.00 and selling
\* price 15.00 (or a unit cost of 8.00); 20 units received (or 10), 5 units
\* sold (or 15).
ExampleCost == {800, 1000}
ExamplePrice == {1500}
ExampleStock == {10, 20}
ExampleSold == {5, 15}

ExampleCarts ==
    {<<Item(p, q, products[p].selling_price)>> :
        p \in ActiveProducts, q \in ExampleSold}

NextExample ==
    \/ \E c \in ExampleCost, pr \in ExamplePrice : AddProduct(c, pr)
    \/ \E p \in Products, q \in ExampleStock, c \in ExampleCost :
          RecordBeginningInventory(p, q, c)
    \/ \E items \in ExampleCarts, pt \in PaymentTypes, ords \in OrderChoices :
          Checkout(items, pt, ords, NoFault)

\* Beginning inventory recorded and sold at the worked example's figures.
SpecExample == Init /\ [][NextExample]_vars

NextLedger ==
    \/ \E pr \in Prices : AddProduct(SetMin(Costs), pr)
    \/ \E p \in Moved : AddLot(p, 0, MaxQty, SetMin(Costs), SetMin(Dates))
    \/ \E items \in Carts, pt \in PaymentTypes, ords \in OrderChoices :
          Checkout(items, pt, ords, NoFault)
    \/ \E pt \in PaymentTypes, b \in BOOLEAN :
          ProcessInventoryPurchase(1, pt, b, NoFault)
    \/ \E p \in Moved, t \in {"increase", "decrease"} :
          ProcessInventoryAdjustment(p, t, 1, NoFault)
    \/ \E p \in Moved : AddPurchaseReturn(0, p, 1, SetMin(Costs), NoFault)
    \/ \E p \in Moved : AddSalesReturn(p, 1, SetMin(Prices), NoFault)

\* Sales, purchases, returns and adjustments posted in any order, the storage
\* never failing.
SpecLedger == Init /\ [][NextLedger]_vars

NextEquation ==
    \/ \E pr \in Prices : AddProduct(SetMin(Costs), pr)
    \/ /\ lots = <<>>
       /\ \E p \in Moved : AddLot(p, 0, MaxQty, SetMin(Costs), SetMin(Dates))
    \/ \E items \in UnitCarts, pt \in PaymentTypes, ords \in OrderChoices :
          Checkout(items, pt, ords, NoFault)
    \/ \E pt \in PaymentTypes, b \in BOOLEAN :
          ProcessInventoryPurchase(1, pt, b, NoFault)
    \/ \E t \in ExpenseTypes, pt \in PaymentTypes :
          ProcessExpenseTransaction(t, 1, pt)
    \/ ProcessCustomerPayment(1)
    \/ ProcessSupplierPayment(1)
    \/ \E p \in Moved, t \in {"increase", "decrease"} :
          ProcessInventoryAdjustment(p, t, 1, NoFault)
    \/ \E p \in Moved : AddPurchaseReturn(0, p, 1, SetMin(Costs), NoFault)
    \/ \E p \in Moved : AddSalesReturn(p, 1, SetMin(Prices), NoFault)
    \/ ProcessBadDebtWriteOff(0, 1, 1, NoFault)
    \/ /\ Len(cashbook) < MaxCashRows
       /\ AddCashInvestment(1)

\* Every transaction processor on the default chart, in any order, the
\* storage never failing.
SpecEquation == Init /\ [][NextEquation]_vars

\* The lot rows of the quoted product in full variety, and untouched lots of
\* the other product beside them.
PlanRows ==
    {r \in LotRows :
        \/ r.product_id \in Moved
        \/ /\ r.quantity_remaining = MaxQty
           /\ r.cost_per_unit = SetMin(Costs)
           /\ r.date_acquired = SetMin(Dates)}

InitPlan ==
    /\ accounts = DefaultChart
    /\ journal = <<>>
    /\ lots \in UNION {[1..n -> PlanRows] : n \in 0..MaxLots}
    /\ products = [p \in Products |->
                      [state |-> "active", quantity |-> LotSum(lots, p, 1),
                       cost_price |-> SetMin(Costs),
                       selling_price |-> SetMin(Prices)]]
    /\ purchases = <<>>
    /\ sales = <<>>
    /\ customers = [c \in Customers |-> NoCustomer]
    /\ cashbook = <<>>
    /\ purchase_returns = <<>>
    /\ sales_returns = <<>>
    /\ terminals = [t \in Terminals |-> Idle]
    /\ last = [op |-> "init", ret |-> "", arg |-> <<>>]

NextPlan ==
    \/ \E p \in Products : DeleteProduct(p)
    \/ \E p \in Products, n \in Needs :
          \E ord \in GetInventoryLots(lots, p) : QuoteAndConsume(p, n, ord)

\* Lot tables within the bounds, quoted and consumed product by product;
\* product rows may be deleted while their lots stay.
SpecPlan == InitPlan /\ [][NextPlan]_vars

\* ------------------------------------------------------------------ claims
EntryDiff(e) == SumDebit(e.lines) - SumCredit(e.lines)

PersistedEntriesBalanced ==
    \A k \in DOMAIN journal : Abs(EntryDiff(journal[k])) <= Tolerance

UnbalancedCallRejected ==
    (last'.op = "create_journal_entry" /\ Abs(last'.arg.diff) > Tolerance)
        => /\ last'.ret = "raised"
           /\ journal' = journal
           /\ accounts' = accounts

\* C1: every persisted journal entry has |debits - credits| <= 0.01, and a
\* create_journal_entry call whose lines differ by more than 0.01 raises and
\* leaves the journal and every account balance as they were.
C1_BalancedOrRejected ==
    [](PersistedEntriesBalanced) /\ [][UnbalancedCallRejected]_vars

\* C1 witness: an entry is persisted and the last call, whose lines differed
\* by more than 0.01, was rejected.
C1_Witness ==
    /\ Len(journal) >= 1
    /\ last.op = "create_journal_entry"
    /\ Abs(last.arg.diff) > Tolerance
    /\ last.ret = "raised"

\* The net of all persisted lines naming `name`, in the sign of `type`.
RECURSIVE LinesNet(_, _)
LinesNet(lines, name) ==
    IF lines = <<>> THEN 0
    ELSE (IF Head(lines).account = name
          THEN Head(lines).debit - Head(lines).credit ELSE 0)
         + LinesNet(Tail(lines), name)

RECURSIVE JournalNet(_, _)
JournalNet(jrnl, name) ==
    IF jrnl = <<>> THEN 0
    ELSE LinesNet(Head(jrnl).lines, name) + JournalNet(Tail(jrnl), name)

NetByType(type, net) == IF type \in {"asset", "expense"} THEN net ELSE -net

\* C3: every account's stored balance equals the cumulative net of all
\* persisted journal lines naming it (debits - credits for asset/expense,
\* credits - debits for liability/equity/revenue).
C3_BalanceIsJournalNet ==
    \A i \in DOMAIN accounts :
        accounts[i].balance =
            NetByType(accounts[i].type, JournalNet(journal, accounts[i].name))

\* C9: posting is atomic: when a step after the header insert fails (a line
\* insert or a line's balance update) nothing of the entry persists;
\* otherwise the header, all lines and all balance updates persist together.
C9_PostingAtomic ==
    [][last'.op = "create_journal_entry" /\ last'.ret # "raised"
         => /\ last'.arg.fault.kind \in {"line", "balance"}
               => journal' = journal /\ accounts' = accounts
            /\ last'.arg.fault.kind = "none"
               => /\ Len(journal') = Len(journal) + 1
                  /\ accounts' = ApplyLines(accounts, journal'[Len(journal')].lines,
                                            1, NoFault)]_vars

LotsWithinPurchased ==
    \A i \in DOMAIN lots :
        /\ 0 <= lots[i].quantity_remaining
        /\ lots[i].quantity_remaining <= lots[i].quantity_purchased

ConsumeRejectsOrDecrements ==
    (last'.op = "consume_inventory_lot" /\ last'.arg.lot_id \in DOMAIN lots)
        => LET l == last'.arg.lot_id
               q == last'.arg.quantity
               owner == lots[l].product_id
           IN  IF q > lots[l].quantity_remaining
               THEN /\ last'.ret = "false"
                    /\ lots' = lots
                    /\ products' = products
               ELSE /\ lots' = [lots EXCEPT ![l].quantity_remaining = @ - q]
                    /\ \A p \in Products :
                          products'[p] =
                              IF p = owner /\ products[p].state = "active"
                              THEN [products[p] EXCEPT !.quantity = @ - q]
                              ELSE products[p]

\* C5: every lot keeps 0 <= quantity_remaining <= quantity_purchased, and
\* consume_inventory_lot(lot, q) with q above the lot's remaining quantity is
\* rejected with lot and product untouched, and otherwise takes exactly q off
\* the lot and off the quantity of the lot's product row.
C5_LotBoundsAndConsume ==
    [](LotsWithinPurchased) /\ [][ConsumeRejectsOrDecrements]_vars

\* C5 witness: a consumption went through and left part of the lot.
C5_Witness ==
    /\ last.op = "consume_inventory_lot"
    /\ last.ret = "true"
    /\ last.arg.lot_id \in DOMAIN lots
    /\ lots[last.arg.lot_id].quantity_remaining >= 1
    /\ lots[last.arg.lot_id].quantity_remaining
          = lots[last.arg.lot_id].quantity_purchased - last.arg.quantity
    /\ products[lots[last.arg.lot_id].product_id].quantity
          = LotSum(lots, lots[last.arg.lot_id].product_id, 1)

RECURSIVE PlanQuantity(_, _)
PlanQuantity(plan, k) ==
    IF k = 0 THEN 0 ELSE plan[k].quantity_consumed + PlanQuantity(plan, k - 1)

RECURSIVE PlanCost(_, _)
PlanCost(plan, k) ==
    IF k = 0 THEN 0
    ELSE plan[k].quantity_consumed * plan[k].cost_per_unit + PlanCost(plan, k - 1)

QuoteIsFifoPlan(p, n, quote) ==
    LET plan == quote.lots_consumed
    IN  /\ ~quote.none
        /\ PlanQuantity(plan, Len(plan)) = n
        /\ quote.total_cost = PlanCost(plan, Len(plan))
        /\ \A k \in DOMAIN plan :
              /\ plan[k].lot_id \in DOMAIN lots
              /\ lots[plan[k].lot_id].product_id = p
              /\ plan[k].cost_per_unit = lots[plan[k].lot_id].cost_per_unit
              /\ plan[k].total_cost = plan[k].quantity_consumed * plan[k].cost_per_unit
              /\ plan[k].quantity_consumed =
                    Min2(n - PlanQuantity(plan, k - 1),
                         lots[plan[k].lot_id].quantity_remaining)
              /\ plan[k].quantity_consumed >= 1
              /\ k < Len(plan) =>
                    plan[k].quantity_consumed = lots[plan[k].lot_id].quantity_remaining
              /\ \A j \in DOMAIN plan : j # k => plan[j].lot_id # plan[k].lot_id
              /\ \A i \in DOMAIN lots :
                    (/\ lots[i].product_id = p
                     /\ lots[i].quantity_remaining > 0
                     /\ lots[i].date_acquired < lots[plan[k].lot_id].date_acquired)
                        => \E j \in 1..(k - 1) : plan[j].lot_id = i

\* C6: when the product's lots hold at least the quantity asked, get_fifo_cost
\* returns a plan that takes min(still needed, lot remaining) from each lot in
\* acquisition-date order: the quantities add up to the quantity asked, every
\* lot before the last entry is taken in full, no lot is touched while an
\* older one with stock is left out, and the total cost is the sum of
\* quantity x unit cost over the plan.
C6_FifoPlan ==
    (/\ last.op = "get_fifo_cost"
     /\ LotSum(lots, last.arg.product_id, 1) >= last.arg.quantity)
        => QuoteIsFifoPlan(last.arg.product_id, last.arg.quantity, last.ret)

\* C6 witness: a plan over two lots of different unit cost, the older taken in
\* full and the newer in part.
C6_Witness ==
    /\ last.op = "get_fifo_cost"
    /\ ~last.ret.none
    /\ Len(last.ret.lots_consumed) = 2
    /\ LET plan == last.ret.lots_consumed
       IN  /\ plan[1].cost_per_unit # plan[2].cost_per_unit
           /\ plan[1].lot_id > plan[2].lot_id
           /\ lots[plan[1].lot_id].date_acquired < lots[plan[2].lot_id].date_acquired
           /\ plan[2].quantity_consumed < lots[plan[2].lot_id].quantity_remaining

SentinelIffShort ==
    last.op = "get_fifo_cost"
        => (last.ret.none <=>
               LotSum(lots, last.arg.product_id, 1) < last.arg.quantity)

QuoteReadsOnly ==
    last'.op = "get_fifo_cost" => lots' = lots /\ products' = products

\* C7: get_fifo_cost(product, n) returns the (None, None) sentinel exactly when
\* the product's lots hold fewer than n units in total, and the call changes no
\* lot's quantity_remaining and no product quantity, sentinel or plan.
C7_SentinelAndReadOnly ==
    [](SentinelIffShort) /\ [][QuoteReadsOnly]_vars

\* C7 witness: the sentinel came back although the product has stock, and
\* another quote before it had returned a plan.
C7_Witness ==
    /\ last.op = "get_fifo_cost"
    /\ last.ret.none
    /\ LotSum(lots, last.arg.product_id, 1) >= 1
    /\ LotSum(lots, last.arg.product_id, 1) = last.arg.quantity - 1

\* C4: after any sequence of add_inventory_lot, consume_inventory_lot,
\* create_purchase, add_inventory_adjustment, add_purchase_return and
\* add_sales_return, each product's on-hand quantity equals the sum of
\* quantity_remaining over that product's lots.
C4_QuantityIsLotSum ==
    \A p \in Products :
        ProductExists(products, p) => products[p].quantity = LotSum(lots, p, 1)

\* C2: if the FIFO quote of any item of a sale reports insufficient stock, the
\* sale changes no lot's quantity_remaining and no product quantity and posts
\* no journal entry.
C2_SaleAllOrNothing ==
    [][(/\ last'.op \in {"process_sales_transaction", "checkout"}
        /\ last'.arg.insufficient)
          => /\ lots' = lots
             /\ products' = products
             /\ journal' = journal]_vars

ConsumptionPersisted == lots' # lots

EntryPersisted == Len(journal') = Len(journal) + 1

\* C10: a sale's lot consumptions and its journal entry are committed as one
\* unit: whatever stops a checkout between its first consume_inventory_lot and
\* the commit of its entry, the database afterwards holds either the sale's
\* consumptions together with its entry, or neither.
C10_SaleCommitsAsUnit ==
    [][(last'.op = "checkout" /\ last'.ret # "rejected")
          => (ConsumptionPersisted <=> EntryPersisted)]_vars

\* C8: after any sequence of sales, purchases, purchase and sales returns and
\* inventory adjustments, validate_trial_balance() returns true: the debit
\* amounts of all journal lines add up to the credit amounts of all lines.
C8_TrialBalanceHolds ==
    /\ ValidateTrialBalance(journal)
    /\ JournalDebits(journal) = JournalCredits(journal)

\* C8 witness: the journal is full and holds a sale's entry beside an entry of
\* another kind.
C8_Witness ==
    /\ Len(journal) = MaxEntries
    /\ \E k \in DOMAIN journal : journal[k].journal_type = "sales"
    /\ \E k \in DOMAIN journal : journal[k].journal_type # "sales"
    /\ JournalDebits(journal) > 0

\* The change of every stored balance between two states is the net of
\* `lines` on that account, in the sign of the account's type.
BalancesMovedBy(lines) ==
    /\ DOMAIN accounts' = DOMAIN accounts
    /\ \A i \in DOMAIN accounts :
          /\ accounts'[i].name = accounts[i].name
          /\ accounts'[i].type = accounts[i].type
          /\ accounts'[i].balance - accounts[i].balance =
                NetByType(accounts[i].type, LinesNet(lines, accounts[i].name))

NamesUnknownAccount(lines) ==
    \E i \in DOMAIN lines : lines[i].account \notin AccountNames(accounts)

\* C15: a balanced entry with a line naming an account that is not in the
\* chart is still persisted with that line recorded, the other lines' balance
\* updates are applied, no row appears or changes for the unknown name, and
\* the caller gets the entry id.
C15_UnknownAccountSkipped ==
    [][(/\ last'.op = "create_journal_entry"
        /\ Abs(last'.arg.diff) <= Tolerance
        /\ NamesUnknownAccount(last'.arg.lines))
         => /\ last'.ret = "id"
            /\ journal' = Append(journal, Entry("general", last'.arg.lines))
            /\ BalancesMovedBy(last'.arg.lines)]_vars

\* C15 witness: the entry Dr Suspense 1 / Cr Sales Revenue 1 was posted: it is
\* the last persisted entry and Sales Revenue has been credited.
C15_Witness ==
    /\ last.op = "create_journal_entry"
    /\ last.ret = "id"
    /\ \E i \in DOMAIN last.arg.lines : last.arg.lines[i].account = "Suspense"
    /\ Len(journal) >= 1
    /\ journal[Len(journal)].lines = last.arg.lines
    /\ GetAccountBalance(accounts, "Sales Revenue") >= 1
    /\ "Suspense" \notin AccountNames(accounts)

\* The balance of Cash and of Sales Revenue both rise by the amount of a
\* posted Dr Cash / Cr Sales Revenue entry.
CashSaleRaisesBoth ==
    \A a \in Amounts \cup {10000} :
        (/\ last'.op = "create_journal_entry"
         /\ last'.ret = "id"
         /\ last'.arg.lines = <<Line("Cash", a, 0), Line("Sales Revenue", 0, a)>>)
          => /\ GetAccountBalance(accounts', "Cash")
                  = GetAccountBalance(accounts, "Cash") + a
             /\ GetAccountBalance(accounts', "Sales Revenue")
                  = GetAccountBalance(accounts, "Sales Revenue") + a

\* C16: a posted line (debit d, credit c) changes the balance of its account
\* by d - c for asset and expense accounts and by c - d for liability, equity
\* and revenue accounts, and no other account's balance changes; so
\* Dr Cash 100 / Cr Sales Revenue 100 raises both balances by 100.
C16_SignConvention ==
    [][(last'.op = "create_journal_entry" /\ last'.ret = "id"
          => BalancesMovedBy(last'.arg.lines))
       /\ CashSaleRaisesBoth]_vars

\* C16 witness: Dr Cash 100.00 / Cr Sales Revenue 100.00 was posted and both
\* balances are at least 100.00.
C16_Witness ==
    /\ last.op = "create_journal_entry"
    /\ last.ret = "id"
    /\ last.arg.lines = <<Line("Cash", 10000, 0), Line("Sales Revenue", 0, 10000)>>
    /\ GetAccountBalance(accounts, "Cash") >= 10000
    /\ GetAccountBalance(accounts, "Sales Revenue") >= 10000

\* Over the lots k..Len(lots) of product p: the units a step took off them,
\* and those units at each lot's unit cost.
RECURSIVE UnitsConsumed(_, _)
UnitsConsumed(p, k) ==
    IF k > Len(lots) THEN 0
    ELSE (IF lots[k].product_id = p
          THEN lots[k].quantity_remaining - lots'[k].quantity_remaining
          ELSE 0)
         + UnitsConsumed(p, k + 1)

RECURSIVE CostConsumed(_)
CostConsumed(k) ==
    IF k > Len(lots) THEN 0
    ELSE (lots[k].quantity_remaining - lots'[k].quantity_remaining)
            * lots[k].cost_per_unit
         + CostConsumed(k + 1)

RECURSIVE AmountSold(_)
AmountSold(items) ==
    IF items = <<>> THEN 0
    ELSE Head(items).quantity * Head(items).unit_price + AmountSold(Tail(items))

SoldProducts(items) == {items[i].product_id : i \in DOMAIN items}

SaleEntryPosted(sale) ==
    /\ Len(journal') = Len(journal) + 1
    /\ \A k \in DOMAIN journal : journal'[k] = journal[k]
    /\ journal'[Len(journal')].lines =
          << [account |-> IF sale.payment_type = "cash" THEN "Cash"
                          ELSE "Accounts Receivable",
              debit |-> AmountSold(sale.items), credit |-> 0],
             [account |-> "Sales Revenue",
              debit |-> 0, credit |-> AmountSold(sale.items)],
             [account |-> "Cost of Goods Sold",
              debit |-> CostConsumed(1), credit |-> 0],
             [account |-> "Inventory",
              debit |-> 0, credit |-> CostConsumed(1)] >>

PlansCommitted(items) ==
    /\ Len(lots') = Len(lots)
    /\ \A k \in DOMAIN lots :
          /\ lots'[k].quantity_remaining <= lots[k].quantity_remaining
          /\ lots'[k].quantity_remaining >= 0
    /\ \A i \in DOMAIN items :
          /\ UnitsConsumed(items[i].product_id, 1) = items[i].quantity
          /\ products'[items[i].product_id].quantity =
                products[items[i].product_id].quantity - items[i].quantity
    /\ \A p \in Products \ SoldProducts(items) : UnitsConsumed(p, 1) = 0

\* C18: a successful sale takes every item's quantity off the lots of its
\* product and posts exactly one entry of four lines: Dr Cash (cash sale) or
\* Accounts Receivable (credit sale) and Cr Sales Revenue for the sale amount,
\* Dr Cost of Goods Sold and Cr Inventory for the FIFO cost, which is the sum
\* over the lots consumed of quantity consumed x unit cost.
C18_SaleEntry ==
    [][(last'.op = "checkout" /\ last'.ret = "id")
          => /\ Len(sales') = Len(sales) + 1
             /\ PlansCommitted(sales'[Len(sales')].items)
             /\ SaleEntryPosted(sales'[Len(sales')])]_vars

\* C18 witness: a credit sale has been posted whose two units came from two
\* lots of different unit cost, 1 and 2, so its cost of goods sold is 3.
C18_Witness ==
    /\ last.op = "checkout"
    /\ last.ret = "id"
    /\ Len(sales) >= 1
    /\ sales[Len(sales)].payment_type = "credit"
    /\ Len(journal) >= 1
    /\ Len(journal[Len(journal)].lines) = 4
    /\ journal[Len(journal)].lines[1].account = "Accounts Receivable"
    /\ journal[Len(journal)].lines[3].debit = 3
    /\ \E j, k \in DOMAIN lots :
          /\ lots[j].cost_per_unit # lots[k].cost_per_unit
          /\ lots[j].quantity_remaining < lots[j].quantity_purchased
          /\ lots[k].quantity_remaining < lots[k].quantity_purchased

ReturnPersisted ==
    /\ Len(purchase_returns') = Len(purchase_returns) + 1
    /\ \A k \in DOMAIN purchase_returns :
          purchase_returns'[k] = purchase_returns[k]

\* The reversing entry of a purchase return booked against purchase `pid`.
ReversedByOriginalType(pid, total) ==
    pid \in DOMAIN purchases
      => journal'[Len(journal')].lines =
           IF purchases[pid].payment_type = "cash"
           THEN << [account |-> "Cash", debit |-> total, credit |-> 0],
                   [account |-> "Inventory", debit |-> 0, credit |-> total] >>
           ELSE << [account |-> "Accounts Payable", debit |-> total, credit |-> 0],
                   [account |-> "Inventory", debit |-> 0, credit |-> total] >>

PurchaseReturnDone(a) ==
    /\ ReturnPersisted
    /\ purchase_returns'[Len(purchase_returns')].ref = a.purchase_id
    /\ purchase_returns'[Len(purchase_returns')].product_id = a.product_id
    /\ purchase_returns'[Len(purchase_returns')].quantity = a.quantity
    /\ Len(journal') = Len(journal) + 1
    /\ \A k \in DOMAIN journal : journal'[k] = journal[k]
    /\ Len(journal'[Len(journal')].lines) = 2
    /\ ReversedByOriginalType(a.purchase_id, a.quantity * a.unit_cost)
    /\ ProductExists(products, a.product_id)
         => products'[a.product_id].quantity =
              products[a.product_id].quantity - a.quantity

PurchaseReturnUndone ==
    /\ purchase_returns' = purchase_returns
    /\ journal' = journal
    /\ accounts' = accounts
    /\ products' = products

SalesReturnDone(a) ==
    /\ Len(sales_returns') = Len(sales_returns) + 1
    /\ sales_returns'[Len(sales_returns')].product_id = a.product_id
    /\ sales_returns'[Len(sales_returns')].quantity = a.quantity
    /\ Len(journal') = Len(journal) + 1
    /\ \A k \in DOMAIN journal : journal'[k] = journal[k]
    /\ journal'[Len(journal')].lines =
          << [account |-> "Sales Returns",
              debit |-> a.quantity * a.unit_price, credit |-> 0],
             [account |-> "Inventory",
              debit |-> a.quantity * products[a.product_id].cost_price,
              credit |-> 0],
             [account |-> "Cost of Goods Sold", debit |-> 0,
              credit |-> a.quantity * products[a.product_id].cost_price],
             [account |-> "Cash", debit |-> 0,
              credit |-> a.quantity * a.unit_price] >>
    /\ products'[a.product_id].quantity =
          products[a.product_id].quantity + a.quantity

\* C20: a sales return of an existing product, the storage not failing, posts
\* one four-line entry, Dr Sales Returns (quantity x selling price),
\* Dr Inventory (quantity x cost), Cr Cost of Goods Sold (quantity x cost),
\* Cr Cash (quantity x selling price), and adds the returned quantity to the
\* product's quantity.
C20_SalesReturn ==
    [][(/\ last'.op = "add_sales_return"
        /\ ProductExists(products, last'.arg.product_id)
        /\ last'.arg.fault.kind = "none")
         => SalesReturnDone(last'.arg)]_vars

\* C20 witness: a sales return of two units at price 3 and cost 1 has been
\* posted: Sales Returns debited 6, Inventory debited 2.
C20_Witness ==
    /\ last.op = "add_sales_return"
    /\ last.ret = "id"
    /\ last.arg.quantity = 2
    /\ Len(sales_returns) >= 1
    /\ Len(journal) >= 1
    /\ journal[Len(journal)].lines[1] =
          [account |-> "Sales Returns", debit |-> 6, credit |-> 0]
    /\ journal[Len(journal)].lines[2] =
          [account |-> "Inventory", debit |-> 2, credit |-> 0]
    /\ products[last.arg.product_id].quantity >= 2

\* The history is exactly: beginning inventory of 20 units at cost 10.00 for
\* a product without stock, then a cash sale of 5 units at 15.00.
ExampleRan ==
    /\ Len(lots) = 1
    /\ lots[1].quantity_purchased = 20
    /\ lots[1].cost_per_unit = 1000
    /\ Len(sales) = 1
    /\ sales[1].payment_type = "cash"
    /\ sales[1].items = <<[product_id |-> lots[1].product_id, quantity |-> 5,
                            unit_price |-> 1500]>>
    /\ Len(journal) = 2
    /\ last.op = "checkout"
    /\ last.ret = "id"

\* C17: after beginning inventory of 20 units at cost 10 and a cash sale of 5
\* units at price 15 on an empty ledger, Inventory = 150, Owner Capital = 200,
\* Cash = 75, Sales Revenue = 75, Cost of Goods Sold = 50, the lot has 15
\* units remaining and validate_trial_balance() is true (amounts x 100).
C17_WorkedExample ==
    ExampleRan
      => /\ GetAccountBalance(accounts, "Inventory") = 15000
         /\ GetAccountBalance(accounts, "Owner Capital") = 20000
         /\ GetAccountBalance(accounts, "Cash") = 7500
         /\ GetAccountBalance(accounts, "Sales Revenue") = 7500
         /\ GetAccountBalance(accounts, "Cost of Goods Sold") = 5000
         /\ lots[1].quantity_remaining = 15
         /\ products[lots[1].product_id].quantity = 15
         /\ ValidateTrialBalance(journal)

\* C17 witness: the example has run and the lot is down to 15 units.
C17_Witness ==
    /\ ExampleRan
    /\ lots[1].quantity_remaining = 15
    /\ GetAccountBalance(accounts, "Cash") = 7500

\* C11: when the checkouts of two terminals interleave, every sale accepted
\* by create_sale has its whole quantity consumed from the lots, and
\* process_sales_transaction never finds the stock insufficient.
C11_NoInterleavedConsumption ==
    [][last'.op = "process_sales_transaction"
         => /\ ~last'.arg.insufficient
            /\ PlansCommitted(last'.arg.items)]_vars

WrittenOff(k) == k \in DOMAIN sales /\ sales[k].status = "written_off"

WrittenOffNotListed ==
    \A k \in DOMAIN sales :
        WrittenOff(k) => k \notin GetCreditSales(sales, customers, cashbook)

WrittenOffStays ==
    \A k \in DOMAIN sales :
        WrittenOff(k) => k \in DOMAIN sales' /\ sales'[k].status = "written_off"

SecondWriteOffFails ==
    (last'.op = "record_bad_debt_write_off" /\ WrittenOff(last'.arg.sale_id))
      => /\ last'.ret = "raised"
         /\ sales' = sales
         /\ cashbook' = cashbook
         /\ customers' = customers

\* C12: a sale that a write-off has marked 'written_off' keeps that status in
\* every later state, is never listed by get_credit_sales again, and every
\* later record_bad_debt_write_off on it fails validation.
C12_WriteOffTerminal ==
    [](WrittenOffNotListed) /\ [][WrittenOffStays /\ SecondWriteOffFails]_vars

\* C12 witness: a second write-off of the sale's full amount has just been
\* refused on a sale that is written off.
C12_Witness ==
    /\ last.op = "record_bad_debt_write_off"
    /\ last.ret = "raised"
    /\ last.arg.fault.kind = "none"
    /\ WrittenOff(last.arg.sale_id)
    /\ last.arg.amount = sales[last.arg.sale_id].total_amount

\* The four cases in which record_bad_debt_write_off must refuse.
ValidationFails(a) ==
    \/ a.sale_id \notin DOMAIN sales
    \/ sales[a.sale_id].payment_type # "credit"
    \/ a.amount > sales[a.sale_id].total_amount
    \/ a.amount <= 0

\* C13: record_bad_debt_write_off raises when the sale does not exist, is not
\* a credit sale, the amount exceeds the sale amount or the amount is <= 0,
\* and then the sale's status, the customer balances, the cash transactions
\* and the journal are as before.
C13_WriteOffValidation ==
    [][(last'.op = "record_bad_debt_write_off" /\ ValidationFails(last'.arg))
         => /\ last'.ret = "raised"
            /\ sales' = sales
            /\ customers' = customers
            /\ cashbook' = cashbook
            /\ journal' = journal
            /\ accounts' = accounts]_vars

\* C13 witness: a write-off of more than the sale amount has just been
\* refused on a completed credit sale of a registered customer who owes it.
C13_Witness ==
    /\ last.op = "record_bad_debt_write_off"
    /\ last.ret = "raised"
    /\ last.arg.fault.kind = "none"
    /\ last.arg.sale_id \in DOMAIN sales
    /\ sales[last.arg.sale_id].payment_type = "credit"
    /\ sales[last.arg.sale_id].status = "completed"
    /\ last.arg.amount > sales[last.arg.sale_id].total_amount
    /\ sales[last.arg.sale_id].customer_id \in Customers
    /\ customers[sales[last.arg.sale_id].customer_id].balance > 0

BadDebtEntries ==
    {k \in DOMAIN journal :
        /\ Len(journal[k].lines) = 2
        /\ journal[k].lines[1].account = "Bad Debt Expense"
        /\ journal[k].lines[2].account = "Accounts Receivable"}

WrittenOffSales == {k \in DOMAIN sales : sales[k].status = "written_off"}

\* C14: a Dr Bad Debt Expense / Cr Accounts Receivable entry exists only for
\* a sale that passed the write-off validation, and every sale marked
\* 'written_off' has exactly one: there are as many such entries as
\* written-off sales.
C14_EntryWithWriteOff ==
    Cardinality(BadDebtEntries) = Cardinality(WrittenOffSales)

\* The entry of a customer payment of amount `a` has just been appended.
PaymentEntryPosted(a) ==
    journal' = Append(journal, Entry("cash_receipt", CustomerPaymentLines(a)))

\* C21: a customer payment of amount a posts Dr Cash a / Cr Accounts
\* Receivable a and reduces the outstanding balance of the sale's customer by
\* exactly a; the reduction and the entry both happen or neither does.
C21_PaymentEntryAndBalance ==
    [][last'.op = "record_customer_payment"
         => LET a == last'.arg.amount
                k == last'.arg.sale_id
                owed == OutstandingBalance(sales, customers, cashbook, k)
                owes == OutstandingBalance(sales', customers', cashbook', k)
            IN  \/ PaymentEntryPosted(a) /\ owes = owed - a
                \/ journal' = journal /\ owes = owed]_vars

\* The rows of `ord` are the product's lots with stock, each once.
ListsLotsWithStock(p, ord) ==
    /\ {ord[i] : i \in DOMAIN ord} = LotsWithStock(lots, p)
    /\ Len(ord) = Cardinality(LotsWithStock(lots, p))

\* Among rows of equal acquisition date the lower id comes first.
LowerIdFirst(ord) ==
    \A i, j \in DOMAIN ord :
        (i < j /\ lots[ord[i]].date_acquired = lots[ord[j]].date_acquired)
            => ord[i] < ord[j]

\* C22: get_inventory_lots(product) returns exactly the product's lots with
\* quantity_remaining > 0, ordered by acquisition date ascending, and among
\* lots of equal acquisition date the lot with the lower id first.
C22_LotsListedInFifoOrder ==
    last.op = "get_fifo_cost"
        => /\ ListsLotsWithStock(last.arg.product_id, last.arg.ord)
           /\ DateSorted(lots, last.arg.ord)
           /\ LowerIdFirst(last.arg.ord)

\* C23: validate_trial_balance() returns true if and only if the debit
\* amounts of all journal lines and the credit amounts of all journal lines
\* differ by at most 0.01, the tolerance under which create_journal_entry
\* accepts an entry (a difference of exactly 0.01 included).
C23_TrialBalanceTolerance ==
    ValidateTrialBalance(journal)
        <=> Abs(JournalDebits(journal) - JournalCredits(journal)) <= Tolerance

\* Every entry of the journal passes create_journal_entry's validation.
AllAccepted(jrnl) ==
    \A k \in DOMAIN jrnl : IsBalanced(jrnl[k].lines)

\* C27: after any sequence of journal entries each accepted by
\* AccountingEngine.create_journal_entry, entries whose debits and credits
\* differ by up to the 0.01 tolerance included, validate_trial_balance()
\* returns true.
C27_AcceptedEntriesValidate ==
    AllAccepted(journal) => ValidateTrialBalance(journal)

\* No two accounts share a code and no two accounts share a name.
AccountsUnique ==
    \A i, j \in DOMAIN accounts :
        i # j => /\ accounts[i].code # accounts[j].code
                 /\ accounts[i].name # accounts[j].name

\* Every line of the entry just posted moved the balance of one account.
LineMovesOneAccount ==
    (last'.op = "create_journal_entry" /\ last'.ret = "id")
        => \A k \in DOMAIN last'.arg.lines :
              LET l == last'.arg.lines[k]
              IN  (l.debit # l.credit /\ l.account \in AccountNames(accounts))
                     => Cardinality({i \in DOMAIN accounts :
                                        /\ accounts[i].name = l.account
                                        /\ accounts'[i].balance
                                              # accounts[i].balance}) = 1

\* C24: after any sequence of create_account and initialize_chart_of_accounts
\* calls on top of the default chart no two accounts share a code and no two
\* share a name, so a posted line updates the balance of exactly one account.
C24_AccountIdentity ==
    [](AccountsUnique) /\ [][LineMovesOneAccount]_vars

\* The stored balances of the accounts whose type is in `types`, added up.
RECURSIVE TypeSum(_, _)
TypeSum(accts, types) ==
    IF accts = <<>> THEN 0
    ELSE (IF Head(accts).type \in types THEN Head(accts).balance ELSE 0)
         + TypeSum(Tail(accts), types)

\* C25: with the default chart, after any sequence of transaction processors
\* the stored balances of the asset and expense accounts add up to the stored
\* balances of the liability, equity and revenue accounts.
C25_AccountingEquation ==
    TypeSum(accounts, {"asset", "expense"})
        = TypeSum(accounts, {"liability", "equity", "revenue"})

\* The lots' remaining units at their unit cost, added up.
RECURSIVE LotValue(_)
LotValue(lts) ==
    IF lts = <<>> THEN 0
    ELSE Head(lts).quantity_remaining * Head(lts).cost_per_unit
         + LotValue(Tail(lts))

\* C26: with one writer, after any sequence of stock receipts (a lot, and
\* process_inventory_purchase for quantity x unit cost) and of sales accepted
\* by create_sale and processed by process_sales_transaction, every product
\* at most once per sale, the Inventory account's balance is the sum over all
\* lots of quantity_remaining x cost_per_unit.
C26_InventoryIsLotValue ==
    GetAccountBalance(accounts, "Inventory") = LotValue(lots)

\* C26 witness: two lots of different unit cost were received and a sale has
\* taken units off both; stock is left.
C26_Witness ==
    /\ last.op = "checkout"
    /\ last.ret = "id"
    /\ \E i, j \in DOMAIN lots :
          /\ lots[i].cost_per_unit # lots[j].cost_per_unit
          /\ lots[i].quantity_remaining < lots[i].quantity_purchased
          /\ lots[j].quantity_remaining < lots[j].quantity_purchased
    /\ LotValue(lots) > 0
    /\ GetAccountBalance(accounts, "Inventory") > 0

\* The plan just returned was carried out: every entry names a lot of its
\* own, asks no more than the lot held, and was taken off the lot; the calls
\* returned True (the product row being there), and the product's lots hold
\* exactly n units less.
PlanCarriedOut ==
    (last'.op = "quote_and_consume" /\ ~last'.arg.quote.none)
        => LET plan == last'.arg.quote.lots_consumed
               p == last'.arg.product_id
               n == last'.arg.quantity
           IN  /\ \A k \in DOMAIN plan :
                     /\ plan[k].lot_id \in DOMAIN lots
                     /\ plan[k].quantity_consumed
                           <= lots[plan[k].lot_id].quantity_remaining
                     /\ lots'[plan[k].lot_id].quantity_remaining
                           = lots[plan[k].lot_id].quantity_remaining
                                - plan[k].quantity_consumed
                     /\ ProductExists(products, p)
                           => last'.arg.returned[k]
                     /\ \A j \in DOMAIN plan :
                           j # k => plan[j].lot_id # plan[k].lot_id
               /\ Len(last'.arg.returned) = Len(plan)
               /\ LotSum(lots', p, 1) = LotSum(lots, p, 1) - n

\* C28: when get_fifo_cost(product, n) returns a plan and nothing changes the
\* product's lots in between, consume_inventory_lot goes through for every
\* entry of the plan (each entry names a distinct lot and asks at most that
\* lot's quantity_remaining), and afterwards the product's total
\* quantity_remaining has dropped by exactly n.
C28_PlanIsConsumable ==
    [][PlanCarriedOut]_vars

\* C28 witness: a plan over two lots has just been consumed, the first lot
\* emptied and the second left with stock.
C28_Witness ==
    /\ last.op = "quote_and_consume"
    /\ ~last.arg.quote.none
    /\ Len(last.arg.quote.lots_consumed) = 2
    /\ last.arg.returned = <<TRUE, TRUE>>
    /\ lots[last.arg.quote.lots_consumed[1].lot_id].quantity_remaining = 0
    /\ lots[last.arg.quote.lots_consumed[2].lot_id].quantity_remaining > 0

\* consume_inventory_lot returned True exactly when it took units off the
\* lot, and a call that returned False left lots and products as they were.
ConsumeReturnTellsEffect ==
    last'.op = "consume_inventory_lot"
        => /\ (last'.ret = "true") <=> (lots' # lots)
           /\ (last'.ret = "false") => (lots' = lots /\ products' = products)

\* C29: consume_inventory_lot returns True if and only if it decremented the
\* lot's quantity_remaining; whenever it returns False (unknown lot, quantity
\* above the remaining, or any other reason) the lot's quantity_remaining and
\* the product's quantity are unchanged, also for a lot whose product row was
\* deleted by delete_product.
C29_ConsumeReturnValue ==
    [][ConsumeReturnTellsEffect]_vars

\* No registered customer's balance is below zero.
BalancesNonNegative ==
    \A c \in DOMAIN customers : customers[c].balance >= 0

\* A write-off takes no more off a customer's balance than the balance held.
WriteOffWithinOwed ==
    last'.op = "record_bad_debt_write_off"
        => \A c \in DOMAIN customers :
              customers[c].balance - customers'[c].balance
                  <= customers[c].balance

\* C30: after any sequence of credit sales, record_customer_payment and
\* record_bad_debt_write_off calls every customer's outstanding balance stays
\* >= 0, and a write-off never reduces a customer's balance by more than the
\* customer still owes.
C30_BalanceNeverNegative ==
    [](BalancesNonNegative) /\ [][WriteOffWithinOwed]_vars
====
